---- MODULE Spec2Model ----
(***************************************************************************)
(* C3BT: Compact Clustered Crit-Bit Tree (src/c3bt.c, src/c3bt.h).         *)
(*                                                                         *)
(* The heap of cells, the tree structure and the public operations         *)
(* c3bt_add / c3bt_remove, with the read-only operations (lookup, locate,  *)
(* find, first/last/next/prev) as operators over the current state.        *)
(* Cells are laid out as in the source: pnc packs the parent address with  *)
(* the node count, N holds 8 three-byte nodes, P holds 9 pointers; child   *)
(* bytes keep their tag bits.                                              *)
(***************************************************************************)
EXTENDS Integers, Sequences, FiniteSets, TLC

(***************************************************************************)
(* Bounds of the model.                                                    *)
(***************************************************************************)
\* number of distinct integer keys offered to a U32 tree
NKeys == 17
\* number of user objects that carry a key already carried by another one
NDups == 1
\* number of string-keyed user objects offered to a STR tree
NStrs == 6
\* number of cells the allocator can hand out before malloc returns NULL
MaxCells == 5
\* number of calls a driver makes after leaving its script
MaxCalls == 1
\* the longest string bitops_str is called on by itself
MaxStrLen == 3

\* the bytes of those strings: '1', 'a', 'b'
StrBytes == {49, 97, 98}

\* the key lengths in bits (key_nbits) bitops_str is asked to compare
DiffLengths == {1, 8, 11, 16, 24, 26, 256}

(***************************************************************************)
(* Program constants.                                                      *)
(***************************************************************************)
NODES_PER_CELL == 8
CBIT_MAX == 255
INVALID_NODE == 63
CHILD_CELL_BIT == 64
CHILD_UOBJ_BIT == 128
INDEX_MASK == 15
NULL == 0

\* enum c3bt_key_datatypes with C3BT_FEATURE_MAX
C3BT_KDT_BITS == 0
C3BT_KDT_PSTR == 1
C3BT_KDT_STR == 2
C3BT_KDT_U32 == 3
C3BT_KDT_S32 == 4
C3BT_KDT_U64 == 5
C3BT_KDT_S64 == 6
C3BT_KDT_CUSTOM == 7

CHILD_IS_NODE(x) == x < 8
CHILD_IS_CELL(x) == (x \div CHILD_CELL_BIT) % 2 = 1
CHILD_IS_UOBJ(x) == (x \div CHILD_UOBJ_BIT) % 2 = 1
\* x & INDEX_MASK and x & FLAGS_MASK on a byte
IndexOf(x) == x % (INDEX_MASK + 1)
FlagsOf(x) == (x \div CHILD_CELL_BIT) * CHILD_CELL_BIT

(***************************************************************************)
(* Addresses.  A cell address is 8 * id (cells are 8-byte aligned, the low *)
(* three bits of pnc carry the node count); user objects live elsewhere.   *)
(***************************************************************************)
CellAddrs == {8 * i : i \in 1..MaxCells}
UobjBase == 8 * 125
U32Objs == {UobjBase + i : i \in 1..(NKeys + NDups)}
StrBase == 8 * 250
StrObjs == {StrBase + i : i \in 1..NStrs}
Uobjs == U32Objs \cup StrObjs

\* the values the driver stores in its array (src/c3bt-main.c:35-37)
KeyTable == <<6, 1, 2, 3, 63, 11, 20, 23, 7, 180, 73, 246, 95, 5, 4, 0, 8, 140>>

\* the key of a user object; the user objects past NKeys repeat the keys of
\* the first ones
U32KeyOf(uobj) == KeyTable[((uobj - UobjBase - 1) % NKeys) + 1]

\* zero-terminated strings, as the bytes before the terminator
StrTable ==
  << <<>>,                     \* ""
     <<49, 97>>,               \* "1a"
     <<126>>,                  \* "~"
     <<65, 65>>,               \* "AA"
     <<97, 98, 99>>,           \* "abc"
     <<97, 98, 100>>,          \* "abd"
     <<97, 98, 99, 49>>,       \* "abc1"
     <<97, 98, 99, 100>> >>    \* "abcd"
StrKeyOf(uobj) == StrTable[uobj - StrBase]

\* the key stored in a user object at key_offset
KeyOf(uobj) == IF uobj \in StrObjs THEN StrKeyOf(uobj) ELSE U32KeyOf(uobj)

VARIABLES
  heap,       \* allocated cells: cell address -> c3bt_cell
  root,       \* tree->root
  n_objects,  \* tree->n_objects
  key_type,   \* tree->key_type
  key_nbits,  \* tree->key_nbits
  indexed,    \* history: user objects added successfully and not removed since
  fault,      \* set when an allocation scan ran past the end of a cell's arrays
  last,       \* history: the last call, its return value and the rebalancing it did
  prev,       \* history: the call before the last
  script,     \* the driver being run
  pc,         \* the driver's position in its script
  calls,      \* number of calls made after leaving the script
  n_add_ok,   \* history: number of c3bt_add calls that returned true
  n_remove_ok, \* history: number of c3bt_remove calls that returned true
  args,       \* the arguments of a single call of c3bt_init or of a bitops function
  result      \* <<>> before that call, <<its return value>> after it

vars == <<heap, root, n_objects, key_type, key_nbits, indexed, fault, last, prev, script, pc, calls,
          n_add_ok, n_remove_ok, args, result>>

(***************************************************************************)
(* Bit operations on machine words.                                        *)
(***************************************************************************)
RECURSIVE BitXor(_, _)
BitXor(a, b) ==
  IF a = 0 THEN b
  ELSE IF b = 0 THEN a
  ELSE ((a + b) % 2) + 2 * BitXor(a \div 2, b \div 2)

\* the number of significant bits of x
RECURSIVE BitLen(_)
BitLen(x) == IF x = 0 THEN 0 ELSE 1 + BitLen(x \div 2)

\* __builtin_clz on a w-bit word x > 0
Clz(x, w) == w - BitLen(x)

\* x & (1 << (w - 1) >> i) ? 1 : 0, for a w-bit word x
BitAt(x, w, i) == IF BitLen(x) < w - i THEN 0 ELSE (x \div (2 ^ (w - 1 - i))) % 2

(***************************************************************************)
(* Standard bitops.  req >= 0: bit number req of key1.  req < 0: the first *)
(* differing bit of key1 and key2, -1 when none is found.                  *)
(***************************************************************************)
bitops_u32(req, key1, key2) ==
  IF req >= 0
  THEN BitAt(key1, 32, req)
  ELSE LET bits == BitXor(key1, key2)
       IN  IF bits = 0 THEN -1 ELSE Clz(bits, 32)

\* p[i] of a zero-terminated string
CharAt(p, i) == IF i < Len(p) THEN p[i + 1] ELSE 0

RECURSIVE str_diff(_, _, _, _)
str_diff(i, req, p, q) ==
  IF ~(i < (-req - 1 + 7) \div 8) THEN -1
  ELSE IF CharAt(p, i) = 0 /\ CharAt(q, i) = 0 THEN -1
  ELSE IF CharAt(p, i) = CharAt(q, i) THEN str_diff(i + 1, req, p, q)
  ELSE IF CharAt(p, i) = 0 \/ CharAt(q, i) = 0
       THEN LET nbits == i * 8 + Clz(BitXor(CharAt(p, i), CharAt(q, i)), 32) - 24
            IN  IF nbits >= -req - 1 THEN -1 ELSE nbits
       ELSE str_diff(i + 1, req, p, q)

bitops_str(req, key1, key2) ==
  IF req >= 0
  THEN LET nbits == Len(key1) * 8
       IN  IF req >= nbits THEN 0 ELSE BitAt(CharAt(key1, req \div 8), 8, req % 8)
  ELSE str_diff(0, req, key1, key2)

\* tree->bitops as installed by c3bt_init for the key type
bitops(kdt, req, key1, key2) ==
  IF kdt = C3BT_KDT_STR THEN bitops_str(req, key1, key2)
  ELSE bitops_u32(req, key1, key2)

\* a local variable of the code: v is computed once and named in Body
Bind(v, Body(_)) == Body(v)

(***************************************************************************)
(* Cells.                                                                  *)
(***************************************************************************)
NodeIds == 0..(NODES_PER_CELL - 1)
PtrIds == 0..NODES_PER_CELL

\* cell_malloc: zeroed, every node marked vacant; NULL when malloc fails (oom)
\* or the heap is used up
cell_malloc_addr(h, oom) ==
  IF oom \/ CellAddrs \subseteq DOMAIN h THEN NULL
  ELSE CHOOSE a \in CellAddrs \ DOMAIN h : \A b \in CellAddrs \ DOMAIN h : a <= b

FreshCell ==
  [pnc |-> 0,
   N |-> [i \in NodeIds |-> [cbit |-> 0, child |-> [c \in 0..1 |-> IF c = 0 THEN INVALID_NODE ELSE 0]]],
   P |-> [i \in PtrIds |-> NULL]]

cell_malloc(h) == [a \in DOMAIN h \cup {cell_malloc_addr(h, FALSE)} |-> IF a \in DOMAIN h THEN h[a] ELSE FreshCell]

\* cell_free that leaves the cell allocated
cell_free_kept(h, cell) == h

cell_free(h, cell) == [a \in DOMAIN h \ {cell} |-> h[a]]

cell_ncount(h, cell) == (h[cell].pnc % 8) + 1

cell_parent(h, cell) == h[cell].pnc - (h[cell].pnc % 8)

cell_make_pnc(parent, count) == (parent - (parent % 8)) + (count - 1)

\* cell_set_parent without the store
cell_set_parent_kept(h, cell, parent) == h

cell_set_parent(h, cell, parent) == [h EXCEPT ![cell].pnc = parent + (h[cell].pnc % 8)]

\* cell_inc_ncount without the increment
cell_inc_ncount_kept(h, cell, delta) == h

cell_inc_ncount(h, cell, delta) == [h EXCEPT ![cell].pnc = @ + delta]

\* cell_dec_ncount without the decrement
cell_dec_ncount_kept(h, cell, delta) == h

cell_dec_ncount(h, cell, delta) == [h EXCEPT ![cell].pnc = @ - delta]

\* cell_free_node that leaves the slot marked in use
cell_free_node_kept(h, cell, nid) == h

cell_free_node(h, cell, nid) == [h EXCEPT ![cell].N[nid].child[0] = INVALID_NODE]

cell_free_ptr(h, cell, pid) == [h EXCEPT ![cell].P[pid] = NULL]

cell_node_is_vacant(h, cell, nid) == h[cell].N[nid].child[0] = INVALID_NODE

\* cell_alloc_node: the index the scan from 1 stops at; NODES_PER_CELL when it
\* runs past the last node slot
cell_alloc_node(h, cell) ==
  IF \E i \in 1..(NODES_PER_CELL - 1) : cell_node_is_vacant(h, cell, i)
  THEN CHOOSE i \in 1..(NODES_PER_CELL - 1) :
         /\ cell_node_is_vacant(h, cell, i)
         /\ \A j \in 1..(i - 1) : ~cell_node_is_vacant(h, cell, j)
  ELSE NODES_PER_CELL

\* cell_alloc_ptr: the index the scan from 0 stops at; NODES_PER_CELL + 1 when
\* it runs past the last pointer slot
cell_alloc_ptr(h, cell) ==
  IF \E i \in PtrIds : h[cell].P[i] = NULL
  THEN CHOOSE i \in PtrIds :
         /\ h[cell].P[i] = NULL
         /\ \A j \in 0..(i - 1) : h[cell].P[j] # NULL
  ELSE NODES_PER_CELL + 1

(***************************************************************************)
(* tree_lookup: key-guided descent from the root; the result is not        *)
(* verified.  Returns the user object and the cursor (cell, nid, cid).     *)
(***************************************************************************)
RECURSIVE lookup_walk(_, _, _, _, _)
lookup_walk(h, kdt, key, cell, nid) ==
  LET bit == bitops(kdt, h[cell].N[nid].cbit, key, NULL)
      nxt == h[cell].N[nid].child[bit]
  IN  IF CHILD_IS_NODE(nxt) THEN lookup_walk(h, kdt, key, cell, nxt)
      ELSE IF CHILD_IS_UOBJ(nxt)
           THEN [robj |-> h[cell].P[IndexOf(nxt)], cell |-> cell, nid |-> nid, cid |-> bit]
           ELSE lookup_walk(h, kdt, key, h[cell].P[IndexOf(nxt)], 0)

tree_lookup(h, rt, n, kdt, key) ==
  IF n = 1 THEN [robj |-> h[rt].P[0], cell |-> rt, nid |-> 0, cid |-> 0]
  ELSE IF rt = NULL THEN [robj |-> NULL, cell |-> NULL, nid |-> 0, cid |-> 0]
  ELSE lookup_walk(h, kdt, key, rt, 0)

\* c3bt_locate that verifies no record
c3bt_locate_none(h, rt, n, kdt, nbits, uobj) ==
  [tree_lookup(h, rt, n, kdt, KeyOf(uobj)) EXCEPT !.robj = NULL]

\* c3bt_locate that accepts the record found only at the address of uobj
c3bt_locate_same(h, rt, n, kdt, nbits, uobj) ==
  [tree_lookup(h, rt, n, kdt, KeyOf(uobj)) EXCEPT
     !.robj = IF @ = uobj THEN uobj ELSE NULL]

\* c3bt_locate: lookup by the key of uobj, verified with the diff probe
c3bt_locate(h, rt, n, kdt, nbits, uobj) ==
  LET loc == tree_lookup(h, rt, n, kdt, KeyOf(uobj))
  IN  IF loc.robj = NULL THEN [loc EXCEPT !.robj = NULL]
      ELSE IF bitops(kdt, -(nbits + 1), KeyOf(uobj), KeyOf(loc.robj)) = -1 THEN loc
      ELSE [loc EXCEPT !.robj = NULL]

\* c3bt_find_u32 (c3bt_find_integer): lookup by value, verified by a word compare
c3bt_find_u32(h, rt, n, kdt, key) ==
  IF kdt # C3BT_KDT_U32 THEN NULL
  ELSE LET robj == tree_lookup(h, rt, n, kdt, key).robj
       IN  IF robj = NULL THEN NULL
           ELSE IF U32KeyOf(robj) = key THEN robj ELSE NULL

(***************************************************************************)
(* Ordered traversal.  A cursor is (cell, nid, cid); every operation       *)
(* returns the user object together with the updated cursor.               *)
(***************************************************************************)
RECURSIVE rush_walk(_, _, _, _)
rush_walk(h, cell, nid, dir) ==
  LET nxt == h[cell].N[nid].child[dir]
  IN  IF CHILD_IS_NODE(nxt) THEN rush_walk(h, cell, nxt, dir)
      ELSE IF CHILD_IS_UOBJ(nxt)
           THEN [robj |-> h[cell].P[IndexOf(nxt)], cell |-> cell, nid |-> nid, cid |-> dir]
           ELSE IF h[cell].P[IndexOf(nxt)] = NULL
                THEN [robj |-> NULL, cell |-> cell, nid |-> nid, cid |-> dir]
                ELSE rush_walk(h, h[cell].P[IndexOf(nxt)], 0, dir)

tree_rush_down(h, start, dir) == rush_walk(h, start.cell, start.nid, dir)

tree_extreme(h, rt, n, dir) ==
  IF rt = NULL THEN [robj |-> NULL, cell |-> NULL, nid |-> 0, cid |-> 0]
  ELSE IF n = 1 THEN [robj |-> h[rt].P[0], cell |-> rt, nid |-> 0, cid |-> 0]
  ELSE tree_rush_down(h, [cell |-> rt, nid |-> 0], dir)

c3bt_first(h, rt, n) == tree_extreme(h, rt, n, 0)

c3bt_last(h, rt, n) == tree_extreme(h, rt, n, 1)

\* the key-guided descent of tree_step inside one cell: the deepest node above
\* cur_cbit from which the path of key leaves on the side opposite to dir
RECURSIVE step_upper(_, _, _, _, _, _, _, _)
step_upper(h, kdt, cell, key, cur_cbit, dir, lower, upper) ==
  IF ~CHILD_IS_NODE(lower) THEN upper
  ELSE IF h[cell].N[lower].cbit >= cur_cbit THEN upper
  ELSE LET bit == bitops(kdt, h[cell].N[lower].cbit, key, NULL)
       IN  step_upper(h, kdt, cell, key, cur_cbit, dir,
                      h[cell].N[lower].child[bit],
                      IF bit # dir THEN lower ELSE upper)

\* the climb of tree_step, cell by cell through the parent pointers
RECURSIVE step_climb(_, _, _, _, _, _)
step_climb(h, kdt, cell, key, cur_cbit, dir) ==
  IF cell = NULL THEN [cell |-> NULL, nid |-> INVALID_NODE]
  ELSE LET upper == step_upper(h, kdt, cell, key, cur_cbit, dir, 0, INVALID_NODE)
       IN  IF upper # INVALID_NODE THEN [cell |-> cell, nid |-> upper]
           ELSE step_climb(h, kdt, cell_parent(h, cell), key, cur_cbit, dir)

\* the part of tree_step after the label down
step_down(h, cur, dir) ==
  LET lower == h[cur.cell].N[cur.nid].child[dir]
  IN  IF CHILD_IS_UOBJ(lower)
      THEN [robj |-> h[cur.cell].P[IndexOf(lower)], cell |-> cur.cell, nid |-> cur.nid, cid |-> dir]
      ELSE IF CHILD_IS_CELL(lower)
           THEN tree_rush_down(h, [cell |-> h[cur.cell].P[IndexOf(lower)], nid |-> 0], 1 - dir)
           ELSE tree_rush_down(h, [cell |-> cur.cell, nid |-> lower], 1 - dir)

\* tree_step that hands out the cursor's record again on a tree of one record
tree_step_again(h, n, kdt, cur, dir) ==
  IF n < 2 THEN [robj |-> h[cur.cell].P[0], cell |-> cur.cell, nid |-> cur.nid, cid |-> cur.cid]
  ELSE IF cur.cid # dir THEN step_down(h, cur, dir)
  ELSE LET cur_cbit == h[cur.cell].N[cur.nid].cbit
           uobj == h[cur.cell].P[IndexOf(h[cur.cell].N[cur.nid].child[cur.cid])]
           up == step_climb(h, kdt, cur.cell, KeyOf(uobj), cur_cbit, dir)
       IN  IF up.cell = NULL
           THEN [robj |-> NULL, cell |-> cur.cell, nid |-> cur.nid, cid |-> cur.cid]
           ELSE step_down(h, [cell |-> up.cell, nid |-> up.nid], dir)

tree_step(h, n, kdt, cur, dir) ==
  IF n < 2 THEN [robj |-> NULL, cell |-> cur.cell, nid |-> cur.nid, cid |-> cur.cid]
  ELSE IF cur.cid # dir THEN step_down(h, cur, dir)
  ELSE LET cur_cbit == h[cur.cell].N[cur.nid].cbit
           uobj == h[cur.cell].P[IndexOf(h[cur.cell].N[cur.nid].child[cur.cid])]
           up == step_climb(h, kdt, cur.cell, KeyOf(uobj), cur_cbit, dir)
       IN  IF up.cell = NULL
           THEN [robj |-> NULL, cell |-> cur.cell, nid |-> cur.nid, cid |-> cur.cid]
           ELSE step_down(h, [cell |-> up.cell, nid |-> up.nid], dir)

c3bt_prev(h, n, kdt, cur) == tree_step(h, n, kdt, cur, 0)

c3bt_next(h, n, kdt, cur) == tree_step(h, n, kdt, cur, 1)

(***************************************************************************)
(* Rebalancing inside c3bt_add: cell_node_parent, cell_find_split,         *)
(* cell_split, cell_push_down.                                             *)
(***************************************************************************)
\* cell_node_parent: parent_node_id << 1 | which_child_i_am of the first match;
\* both loops run out (n = 8, c = 2) when no child byte equals node
cell_node_parent(h, cell, node) ==
  LET hit(n, c) == ~cell_node_is_vacant(h, cell, n) /\ h[cell].N[n].child[c] = node
      hits == {x \in 0..(2 * NODES_PER_CELL - 1) : hit(x \div 2, x % 2)}
  IN  IF hits = {} THEN NODES_PER_CELL * 2 + 2
      ELSE CHOOSE x \in hits : \A y \in hits : x <= y

\* the nodes of the in-cell subtree rooted at n (the bitmap of cell_find_split)
RECURSIVE subtree_nodes(_, _, _)
subtree_nodes(h, cell, n) ==
  {n} \cup UNION {subtree_nodes(h, cell, h[cell].N[n].child[c]) :
                    c \in {d \in 0..1 : CHILD_IS_NODE(h[cell].N[n].child[d])}}

RECURSIVE find_split_scan(_, _, _, _, _, _)
find_split_scan(h, cell, i, offset, ret_n, ret_bmp) ==
  IF i = 0 THEN [n |-> ret_n, bitmap |-> ret_bmp]
  ELSE IF ~CHILD_IS_NODE(h[cell].N[i].child[0]) /\ ~CHILD_IS_NODE(h[cell].N[i].child[1])
       THEN find_split_scan(h, cell, i - 1, offset, ret_n, ret_bmp)
       ELSE LET bitmap == subtree_nodes(h, cell, i)
                count == Cardinality(bitmap)
                d == count * 2 - NODES_PER_CELL
                c == IF d < 0 THEN -d ELSE d
            IN  IF c = NODES_PER_CELL % 2 THEN [n |-> i, bitmap |-> bitmap]
                ELSE IF c < offset THEN find_split_scan(h, cell, i - 1, c, i, bitmap)
                ELSE find_split_scan(h, cell, i - 1, offset, ret_n, ret_bmp)

\* cell_find_split that takes the first node with an in-cell child, whatever
\* the size of its subtree
cell_find_split_any(h, cell) ==
  LET cands == {i \in 1..(NODES_PER_CELL - 1) :
                  CHILD_IS_NODE(h[cell].N[i].child[0]) \/ CHILD_IS_NODE(h[cell].N[i].child[1])}
      n == CHOOSE i \in cands : \A j \in cands : i >= j
  IN  [n |-> n, bitmap |-> subtree_nodes(h, cell, n)]

cell_find_split(h, cell) == find_split_scan(h, cell, NODES_PER_CELL - 1, NODES_PER_CELL, 0, {})

\* the inner loop of cell_split over the two children of node i
RECURSIVE split_move_child(_, _, _, _, _)
split_move_child(h, cell, new_cell, i, c) ==
  IF c = 2 THEN h
  ELSE LET p == h[cell].N[i].child[c]
       IN  IF CHILD_IS_NODE(p) THEN split_move_child(h, cell, new_cell, i, c + 1)
           ELSE LET h1 == IF CHILD_IS_CELL(p)
                          THEN cell_set_parent(h, h[cell].P[IndexOf(p)], new_cell)
                          ELSE h
                    h2 == [h1 EXCEPT ![new_cell].P[IndexOf(p)] = h1[cell].P[IndexOf(p)]]
                IN  split_move_child(cell_free_ptr(h2, cell, IndexOf(p)), cell, new_cell, i, c + 1)

\* the loop of cell_split over the nodes of the bitmap
RECURSIVE split_move(_, _, _, _, _)
split_move(h, cell, new_cell, bitmap, i) ==
  IF i = NODES_PER_CELL THEN h
  ELSE IF i \notin bitmap THEN split_move(h, cell, new_cell, bitmap, i + 1)
  ELSE LET h1 == [h EXCEPT ![new_cell].N[i] = h[cell].N[i]]
           h2 == split_move_child(h1, cell, new_cell, i, 0)
       IN  split_move(cell_free_node(h2, cell, i), cell, new_cell, bitmap, i + 1)

\* cell_split: [ok, h, fault]
cell_split(h, cell, oom) ==
  LET new_cell == cell_malloc_addr(h, oom)
  IN  IF new_cell = NULL THEN [ok |-> FALSE, h |-> h, fault |-> FALSE]
      ELSE
        LET fs == cell_find_split(h, cell)
            new_root == fs.n
            count == Cardinality(fs.bitmap)
            h1 == split_move(cell_malloc(h), cell, new_cell, fs.bitmap, 0)
            p == cell_alloc_ptr(h1, cell)
            anchor == cell_node_parent(h1, cell, new_root)
            h2 == [h1 EXCEPT ![cell].P[p] = new_cell,
                             ![cell].N[anchor \div 2].child[anchor % 2] = CHILD_CELL_BIT + p]
            h3 == cell_dec_ncount(h2, cell, count)
            h4 == [h3 EXCEPT ![new_cell].N[0] = h3[new_cell].N[new_root]]
            h5 == cell_free_node(h4, new_cell, new_root)
        IN  IF p > NODES_PER_CELL \/ anchor >= 2 * NODES_PER_CELL
            THEN [ok |-> TRUE, h |-> h, fault |-> TRUE]
            ELSE [ok |-> TRUE,
                  h |-> [h5 EXCEPT ![new_cell].pnc = cell_make_pnc(cell, count)],
                  fault |-> FALSE]

\* the (n, c) pairs cell_push_down accepts: an edge node whose sub-cell has room
push_down_ok(h, cell, n, c) ==
  /\ CHILD_IS_CELL(h[cell].N[n].child[c])
  /\ ~CHILD_IS_NODE(h[cell].N[n].child[1 - c])
  /\ cell_ncount(h, h[cell].P[IndexOf(h[cell].N[n].child[c])]) < NODES_PER_CELL

\* cell_push_down: [ok, h, fault]
cell_push_down(h, cell) ==
  LET cands == {x \in 2..(2 * NODES_PER_CELL - 1) : push_down_ok(h, cell, x \div 2, x % 2)}
  IN  IF cands = {} THEN [ok |-> FALSE, h |-> h, fault |-> FALSE]
      ELSE
        LET x == CHOOSE y \in cands : \A z \in cands : y <= z
            n == x \div 2
            c == x % 2
            sub == h[cell].P[IndexOf(h[cell].N[n].child[c])]
            sibling == h[cell].N[n].child[1 - c]
            old_root == cell_alloc_node(h, sub)
            new_ptr == cell_alloc_ptr(h, sub)
            h1 == cell_inc_ncount(h, sub, 1)
            np == cell_node_parent(h1, cell, n)
            h2 == [h1 EXCEPT ![cell].N[np \div 2].child[np % 2] = h1[cell].N[n].child[c]]
            h3 == [h2 EXCEPT ![sub].N[old_root] = h2[sub].N[0],
                             ![sub].P[new_ptr] = h2[cell].P[IndexOf(sibling)]]
            h4 == [h3 EXCEPT ![sub].N[0] =
                     [cbit |-> h3[cell].N[n].cbit,
                      child |-> [d \in 0..1 |-> IF d = c THEN old_root
                                                ELSE FlagsOf(sibling) + new_ptr]]]
            h5 == IF CHILD_IS_CELL(sibling)
                  THEN cell_set_parent(h4, h4[sub].P[new_ptr], sub)
                  ELSE h4
            h6 == cell_free_ptr(cell_free_node(h5, cell, n), cell, IndexOf(sibling))
        IN  IF old_root >= NODES_PER_CELL \/ new_ptr > NODES_PER_CELL
               \/ np >= 2 * NODES_PER_CELL
            THEN [ok |-> TRUE, h |-> h, fault |-> TRUE]
            ELSE [ok |-> TRUE, h |-> cell_dec_ncount(h6, cell, 1), fault |-> FALSE]

(***************************************************************************)
(* c3bt_add.  Results are [ret, h, rt, n, fault, pd, split]: the return    *)
(* value, the heap, tree->root and tree->n_objects after the call, whether *)
(* an allocation scan overran, and how many push-downs and whether a split *)
(* were performed.                                                         *)
(***************************************************************************)
\* the search loop after the label next: [cell, nid, cid, lower]
RECURSIVE add_search(_, _, _, _, _, _, _, _)
add_search(h, kdt, key, cbit_nr, cell, nid, cid, lower) ==
  IF CHILD_IS_UOBJ(lower) THEN [cell |-> cell, nid |-> nid, cid |-> cid, lower |-> lower]
  ELSE IF h[cell].N[lower].cbit > cbit_nr
       THEN [cell |-> cell, nid |-> nid, cid |-> cid, lower |-> lower]
       ELSE LET bit == bitops(kdt, h[cell].N[lower].cbit, key, NULL)
                nxt == h[cell].N[lower].child[bit]
            IN  IF CHILD_IS_CELL(nxt)
                THEN add_search(h, kdt, key, cbit_nr, h[cell].P[IndexOf(nxt)], INVALID_NODE, bit, 0)
                ELSE add_search(h, kdt, key, cbit_nr, cell, lower, bit, nxt)

\* the insertion of the new node once the cell has room
add_commit(h, rt, n, cur, cbit_nr, bit, uobj, pd, split) ==
  LET cell == cur.cell
      node0 == cell_alloc_node(h, cell)
      new_ptr == cell_alloc_ptr(h, cell)
      h1 == [cell_inc_ncount(h, cell, 1) EXCEPT ![cell].P[new_ptr] = uobj]
      atroot == cur.nid = INVALID_NODE
      h2 == IF atroot THEN [h1 EXCEPT ![cell].N[node0] = h1[cell].N[0]] ELSE h1
      lower == IF atroot THEN node0 ELSE cur.lower
      new_node == IF atroot THEN 0 ELSE node0
      h3 == IF atroot THEN h2 ELSE [h2 EXCEPT ![cell].N[cur.nid].child[cur.cid] = new_node]
      h4 == [h3 EXCEPT ![cell].N[new_node] =
               [cbit |-> cbit_nr,
                child |-> [c \in 0..1 |-> IF c = bit THEN new_ptr + CHILD_UOBJ_BIT ELSE lower]]]
  IN  IF node0 >= NODES_PER_CELL \/ new_ptr > NODES_PER_CELL
      THEN [ret |-> FALSE, h |-> h, rt |-> rt, n |-> n, fault |-> TRUE, pd |-> pd, split |-> split]
      ELSE [ret |-> TRUE, h |-> h4, rt |-> rt, n |-> n + 1, fault |-> FALSE, pd |-> pd, split |-> split]

\* add_room without the test for a full cell
add_room_unchecked(h, rt, n, kdt, key, cur, cbit_nr, bit, uobj, oom, pd, split) ==
  add_commit(h, rt, n, cur, cbit_nr, bit, uobj, pd, split)

\* make room in a full cell (push down, else split), search again, insert
RECURSIVE add_room(_, _, _, _, _, _, _, _, _, _, _, _)
add_room(h, rt, n, kdt, key, cur, cbit_nr, bit, uobj, oom, pd, split) ==
  IF cell_ncount(h, cur.cell) = NODES_PER_CELL
  THEN Bind(cell_push_down(h, cur.cell), LAMBDA d :
       Bind(IF d.ok THEN d ELSE cell_split(h, cur.cell, oom), LAMBDA r :
         IF r.fault
         THEN [ret |-> FALSE, h |-> h, rt |-> rt, n |-> n, fault |-> TRUE, pd |-> pd, split |-> split]
         ELSE IF ~r.ok
         THEN [ret |-> FALSE, h |-> h, rt |-> rt, n |-> n, fault |-> FALSE, pd |-> pd, split |-> split]
         ELSE add_room(r.h, rt, n, kdt, key,
                       add_search(r.h, kdt, key, cbit_nr, cur.cell, INVALID_NODE, cur.cid, 0),
                       cbit_nr, bit, uobj, oom,
                       IF d.ok THEN pd + 1 ELSE pd, split \/ ~d.ok)))
  ELSE add_commit(h, rt, n, cur, cbit_nr, bit, uobj, pd, split)

c3bt_add(h, rt, n, kdt, nbits, uobj, oom) ==
  IF rt = NULL
  THEN \* Empty -> singleton.
       LET cell == cell_malloc_addr(h, oom)
           h1 == [cell_malloc(h) EXCEPT
                    ![cell].N[0].child = [c \in 0..1 |-> IF c = 0 THEN CHILD_UOBJ_BIT + 0
                                                         ELSE CHILD_CELL_BIT + 1],
                    ![cell].P[0] = uobj]
       IN  IF cell = NULL
           THEN [ret |-> FALSE, h |-> h, rt |-> rt, n |-> n, fault |-> FALSE, pd |-> 0, split |-> FALSE]
           ELSE [ret |-> TRUE, h |-> h1, rt |-> cell, n |-> n + 1, fault |-> FALSE, pd |-> 0, split |-> FALSE]
  ELSE
    Bind(KeyOf(uobj), LAMBDA key :
    Bind(tree_lookup(h, rt, n, kdt, key), LAMBDA loc :
    Bind(bitops(kdt, -(nbits + 1), key, KeyOf(loc.robj)), LAMBDA cbit_nr :
    Bind(bitops(kdt, cbit_nr, key, NULL), LAMBDA bit :
        IF cbit_nr = -1
        THEN [ret |-> FALSE, h |-> h, rt |-> rt, n |-> n, fault |-> FALSE, pd |-> 0, split |-> FALSE]
        ELSE IF n = 1
        THEN \* Add to singleton.
             [ret |-> TRUE,
              h |-> [h EXCEPT ![rt].P[1] = uobj,
                              ![rt].N[0] = [cbit |-> cbit_nr,
                                            child |-> [c \in 0..1 |-> IF c = bit THEN CHILD_UOBJ_BIT + 1
                                                                      ELSE CHILD_UOBJ_BIT + 0]]],
              rt |-> rt, n |-> n + 1, fault |-> FALSE, pd |-> 0, split |-> FALSE]
        ELSE add_room(h, rt, n, kdt, key,
                      IF cbit_nr > h[loc.cell].N[loc.nid].cbit
                      THEN [cell |-> loc.cell, nid |-> loc.nid, cid |-> loc.cid,
                            lower |-> h[loc.cell].N[loc.nid].child[loc.cid]]
                      ELSE add_search(h, kdt, key, cbit_nr, rt, INVALID_NODE, loc.cid, 0),
                      cbit_nr, bit, uobj, oom, 0, FALSE)))))

(***************************************************************************)
(* c3bt_remove with cell_find_anchor and cell_merge.  Results are          *)
(* [ret, h, rt, n, fault, pushup, merge].                                  *)
(***************************************************************************)
\* cell_find_anchor: nid << 1 | cid of the child byte of parent that refers to
\* cell; 2 * NODES_PER_CELL + 2 when either scan runs out
cell_find_anchor(h, cell, parent) ==
  LET slots == {i \in PtrIds : h[parent].P[i] = cell}
      i == (CHOOSE j \in slots : \A k \in slots : j <= k) + CHILD_CELL_BIT
      hit(nid, cid) == ~cell_node_is_vacant(h, parent, nid) /\ h[parent].N[nid].child[cid] = i
      hits == {x \in 0..(2 * NODES_PER_CELL - 1) : hit(x \div 2, x % 2)}
  IN  IF slots = {} THEN NODES_PER_CELL * 2 + 2
      ELSE IF hits = {} THEN NODES_PER_CELL * 2 + 2
      ELSE CHOOSE x \in hits : \A y \in hits : x <= y

\* the first loop of cell_merge: wstack drives a traversal that leaves the
\* nodes and externals of cell in fstack, root first, child[1] before child[0]
RECURSIVE merge_fill(_, _, _, _)
merge_fill(h, cell, wstack, fstack) ==
  IF wstack = <<>> THEN fstack
  ELSE LET n == wstack[Len(wstack)]
           rest == SubSeq(wstack, 1, Len(wstack) - 1)
       IN  merge_fill(h, cell,
                      IF CHILD_IS_NODE(n)
                      THEN rest \o <<h[cell].N[n].child[0], h[cell].N[n].child[1]>>
                      ELSE rest,
                      Append(fstack, n))

\* the first entry above wtop that is not INVALID_NODE
RECURSIVE merge_skip(_, _)
merge_skip(fstack, wtop) ==
  IF fstack[wtop] = INVALID_NODE THEN merge_skip(fstack, wtop + 1) ELSE wtop

\* the second loop of cell_merge, from the top of fstack down: [h, fstack, fault]
RECURSIVE merge_copy(_, _, _, _, _)
merge_copy(h, cell, parent, fstack, ftop) ==
  IF ftop = 0 THEN [h |-> h, fstack |-> fstack, fault |-> FALSE]
  ELSE LET n == fstack[ftop]
       IN  IF CHILD_IS_NODE(n)
           THEN LET new_node == cell_alloc_node(h, parent)
                    h1 == cell_inc_ncount(h, parent, 1)
                    w1 == merge_skip(fstack, ftop + 1)
                    w0 == merge_skip([fstack EXCEPT ![w1] = INVALID_NODE], w1)
                    h2 == [h1 EXCEPT ![parent].N[new_node] =
                             [cbit |-> h1[cell].N[n].cbit,
                              child |-> [c \in 0..1 |-> IF c = 1 THEN fstack[w1] ELSE fstack[w0]]]]
                    f2 == [fstack EXCEPT ![w1] = INVALID_NODE, ![w0] = INVALID_NODE,
                                         ![ftop] = new_node]
                IN  IF new_node >= NODES_PER_CELL
                    THEN [h |-> h, fstack |-> fstack, fault |-> TRUE]
                    ELSE merge_copy(h2, cell, parent, f2, ftop - 1)
           ELSE LET new_ptr == cell_alloc_ptr(h, parent)
                    c == IndexOf(n)
                    h1 == [h EXCEPT ![parent].P[new_ptr] = h[cell].P[c]]
                    h2 == IF CHILD_IS_CELL(n) THEN cell_set_parent(h1, h1[cell].P[c], parent) ELSE h1
                IN  IF new_ptr > NODES_PER_CELL
                    THEN [h |-> h, fstack |-> fstack, fault |-> TRUE]
                    ELSE merge_copy(h2, cell, parent,
                                    [fstack EXCEPT ![ftop] = FlagsOf(n) + new_ptr], ftop - 1)

\* cell_merge without the closing cell_free
cell_merge_unfreed(h, cell, parent, anchor) ==
  LET h1 == cell_free_ptr(h, parent, IndexOf(h[parent].N[anchor \div 2].child[anchor % 2]))
      fstack == merge_fill(h1, cell, <<0>>, <<>>)
      r == merge_copy(h1, cell, parent, fstack, Len(fstack))
      h2 == [r.h EXCEPT ![parent].N[anchor \div 2].child[anchor % 2] = r.fstack[1]]
  IN  IF r.fault THEN [h |-> h, fault |-> TRUE]
      ELSE [h |-> h2, fault |-> FALSE]

\* cell_merge: [h, fault]
cell_merge(h, cell, parent, anchor) ==
  LET h1 == cell_free_ptr(h, parent, IndexOf(h[parent].N[anchor \div 2].child[anchor % 2]))
      fstack == merge_fill(h1, cell, <<0>>, <<>>)
      r == merge_copy(h1, cell, parent, fstack, Len(fstack))
      h2 == [r.h EXCEPT ![parent].N[anchor \div 2].child[anchor % 2] = r.fstack[1]]
  IN  IF r.fault THEN [h |-> h, fault |-> TRUE]
      ELSE [h |-> cell_free(h2, cell), fault |-> FALSE]

\* the sub-cell references of cell that c3bt_remove may merge into it
merge_sub_ok(h, cell, n, c) ==
  /\ ~cell_node_is_vacant(h, cell, n)
  /\ CHILD_IS_CELL(h[cell].N[n].child[c])
  /\ cell_ncount(h, cell) + cell_ncount(h, h[cell].P[IndexOf(h[cell].N[n].child[c])])
       <= NODES_PER_CELL

\* the part of c3bt_remove after cell_dec_ncount: try merging
remove_merge(h, rt, n, cell, parent) ==
  IF parent # NULL /\ cell_ncount(h, cell) + cell_ncount(h, parent) <= NODES_PER_CELL
  THEN Bind(cell_find_anchor(h, cell, parent), LAMBDA anchor :
         IF anchor >= 2 * NODES_PER_CELL
         THEN [ret |-> TRUE, h |-> h, rt |-> rt, n |-> n, fault |-> TRUE, pushup |-> FALSE, merge |-> "up"]
         ELSE Bind(cell_merge(h, cell, parent, anchor), LAMBDA m :
                [ret |-> TRUE, h |-> m.h, rt |-> rt, n |-> n - 1, fault |-> m.fault,
                 pushup |-> FALSE, merge |-> "up"]))
  ELSE LET cands == {x \in 0..(2 * NODES_PER_CELL - 1) : merge_sub_ok(h, cell, x \div 2, x % 2)}
           x == CHOOSE y \in cands : \A z \in cands : y <= z
           sub == h[cell].P[IndexOf(h[cell].N[x \div 2].child[x % 2])]
       IN  IF cands = {}
           THEN [ret |-> TRUE, h |-> h, rt |-> rt, n |-> n - 1, fault |-> FALSE,
                 pushup |-> FALSE, merge |-> "no"]
           ELSE Bind(cell_merge(h, sub, cell, x), LAMBDA m :
                  [ret |-> TRUE, h |-> m.h, rt |-> rt, n |-> n - 1, fault |-> m.fault,
                   pushup |-> FALSE, merge |-> "down"])

c3bt_remove(h, rt, n, kdt, nbits, uobj) ==
  Bind(c3bt_locate(h, rt, n, kdt, nbits, uobj), LAMBDA loc :
      IF loc.robj = NULL
      THEN [ret |-> FALSE, h |-> h, rt |-> rt, n |-> n, fault |-> FALSE, pushup |-> FALSE, merge |-> "no"]
      ELSE
        LET cell == loc.cell
            parent == cell_parent(h, cell)
            h1 == cell_free_ptr(h, cell, IndexOf(h[cell].N[loc.nid].child[loc.cid]))
            sibling == h1[cell].N[0].child[1 - loc.cid]
        IN  IF loc.nid = 0
            THEN \* Remove from cell root.
                 IF CHILD_IS_NODE(sibling)
                 THEN LET h2 == [h1 EXCEPT ![cell].N[0] = h1[cell].N[sibling]]
                          h3 == cell_free_node(h2, cell, sibling)
                      IN  remove_merge(cell_dec_ncount(h3, cell, 1), rt, n, cell, parent)
                 ELSE IF CHILD_IS_UOBJ(sibling) /\ parent = NULL
                 THEN \* Turn to singleton tree.
                      LET h2 == [h1 EXCEPT ![cell].N[0].child =
                                   [c \in 0..1 |-> IF c = 0 THEN CHILD_UOBJ_BIT + 0
                                                   ELSE CHILD_CELL_BIT + 1]]
                          h3 == [h2 EXCEPT ![cell].P[0] = h2[cell].P[IndexOf(sibling)]]
                          h4 == [h3 EXCEPT ![cell].P[1] = NULL]
                      IN  [ret |-> TRUE, h |-> h4, rt |-> rt, n |-> n - 1, fault |-> FALSE,
                           pushup |-> FALSE, merge |-> "no"]
                 ELSE IF parent = NULL
                 THEN \* the root cell's only node loses its user object
                      LET nrt == h1[cell].P[IndexOf(sibling)]
                          h2 == IF nrt # NULL THEN cell_set_parent(h1, nrt, NULL) ELSE h1
                      IN  [ret |-> TRUE, h |-> cell_free(h2, cell), rt |-> nrt, n |-> n - 1,
                           fault |-> FALSE, pushup |-> TRUE, merge |-> "no"]
                 ELSE \* push up then free
                      LET anchor == cell_find_anchor(h1, cell, parent)
                          an == anchor \div 2
                          ac == anchor % 2
                          pap == IndexOf(h1[parent].N[an].child[ac])
                          h2 == [h1 EXCEPT ![parent].P[pap] = h1[cell].P[IndexOf(sibling)]]
                          h3 == IF CHILD_IS_CELL(sibling)
                                THEN cell_set_parent(h2, h2[parent].P[pap], parent)
                                ELSE h2
                          h4 == [h3 EXCEPT ![parent].N[an].child[ac] = pap + FlagsOf(sibling)]
                      IN  IF anchor >= 2 * NODES_PER_CELL
                          THEN [ret |-> TRUE, h |-> h, rt |-> rt, n |-> n, fault |-> TRUE,
                                pushup |-> TRUE, merge |-> "no"]
                          ELSE [ret |-> TRUE, h |-> cell_free(h4, cell), rt |-> rt, n |-> n - 1,
                                fault |-> FALSE, pushup |-> TRUE, merge |-> "no"]
            ELSE \* Not removing from cell root.
                 LET np == cell_node_parent(h1, cell, loc.nid)
                     h2 == [h1 EXCEPT ![cell].N[np \div 2].child[np % 2] =
                                        h1[cell].N[loc.nid].child[1 - loc.cid]]
                     h3 == cell_free_node(h2, cell, loc.nid)
                 IN  IF np >= 2 * NODES_PER_CELL
                     THEN [ret |-> TRUE, h |-> h, rt |-> rt, n |-> n, fault |-> TRUE,
                           pushup |-> FALSE, merge |-> "no"]
                     ELSE remove_merge(cell_dec_ncount(h3, cell, 1), rt, n, cell, parent))

(***************************************************************************)
(* c3bt_destroy with cell_delist_subcell.  The walk carries s = [h, live,  *)
(* frees, bad]: the memory, the cells not yet freed, the addresses passed  *)
(* to cell_free in order, and whether a freed or foreign address was read, *)
(* written or freed.                                                       *)
(***************************************************************************)
\* cell_delist_subcell that leaves the child byte as it was
cell_delist_subcell_kept(s, cell) ==
  IF cell = NULL THEN [s |-> s, next |-> NULL]
  ELSE IF cell \notin s.live THEN [s |-> [s EXCEPT !.bad = TRUE], next |-> NULL]
  ELSE LET hits == {x \in 0..(2 * NODES_PER_CELL - 1) :
                      /\ ~cell_node_is_vacant(s.h, cell, x \div 2)
                      /\ CHILD_IS_CELL(s.h[cell].N[x \div 2].child[x % 2])}
           x == CHOOSE y \in hits : \A z \in hits : y <= z
       IN  IF hits = {} THEN [s |-> s, next |-> NULL]
           ELSE [s |-> s, next |-> s.h[cell].P[IndexOf(s.h[cell].N[x \div 2].child[x % 2])]]

\* cell_delist_subcell: [s, next]; the first sub-cell reference of cell, in
\* node then side order, is overwritten with 0 and the slot's pointer returned
cell_delist_subcell(s, cell) ==
  IF cell = NULL THEN [s |-> s, next |-> NULL]
  ELSE IF cell \notin s.live THEN [s |-> [s EXCEPT !.bad = TRUE], next |-> NULL]
  ELSE LET hits == {x \in 0..(2 * NODES_PER_CELL - 1) :
                      /\ ~cell_node_is_vacant(s.h, cell, x \div 2)
                      /\ CHILD_IS_CELL(s.h[cell].N[x \div 2].child[x % 2])}
           x == CHOOSE y \in hits : \A z \in hits : y <= z
       IN  IF hits = {} THEN [s |-> s, next |-> NULL]
           ELSE [s |-> [s EXCEPT !.h[cell].N[x \div 2].child[x % 2] = 0],
                 next |-> s.h[cell].P[IndexOf(s.h[cell].N[x \div 2].child[x % 2])]]

\* cell_free(del) inside c3bt_destroy; free(NULL) does nothing
destroy_free(s, del) ==
  IF del = NULL THEN s
  ELSE IF del \notin s.live THEN [s EXCEPT !.bad = TRUE]
  ELSE [s EXCEPT !.live = @ \ {del}, !.frees = Append(@, del)]

\* the inner while loop of c3bt_destroy: [s, next, del]
RECURSIVE destroy_climb(_, _, _, _)
destroy_climb(s, cell, del, fuel) ==
  IF s.bad \/ fuel = 0 THEN [s |-> [s EXCEPT !.bad = TRUE], next |-> NULL, del |-> del]
  ELSE IF cell \notin s.live THEN [s |-> [s EXCEPT !.bad = TRUE], next |-> NULL, del |-> del]
  ELSE IF cell_parent(s.h, cell) = NULL THEN [s |-> s, next |-> NULL, del |-> del]
  ELSE Bind(cell_parent(s.h, cell), LAMBDA next :
       Bind(destroy_free(s, del), LAMBDA s1 :
         IF next \notin s1.live THEN [s |-> [s1 EXCEPT !.bad = TRUE], next |-> NULL, del |-> next]
         ELSE Bind(cell_delist_subcell(s1, cell_parent(s1.h, next)), LAMBDA t :
                IF t.next # NULL THEN [s |-> t.s, next |-> t.next, del |-> next]
                ELSE destroy_climb(t.s, next, next, fuel - 1))))

\* the outer while loop of c3bt_destroy: [s, del, done]
RECURSIVE destroy_loop(_, _, _, _)
destroy_loop(s, cell, del, fuel) ==
  IF s.bad \/ fuel = 0 THEN [s |-> s, del |-> del, done |-> FALSE]
  ELSE IF cell = NULL THEN [s |-> s, del |-> del, done |-> TRUE]
  ELSE Bind(cell_delist_subcell(s, cell), LAMBDA t :
         IF t.next # NULL THEN destroy_loop(t.s, t.next, del, fuel - 1)
         ELSE Bind(destroy_free(t.s, del), LAMBDA s1 :
              IF cell \notin s1.live THEN [s |-> [s1 EXCEPT !.bad = TRUE], del |-> cell, done |-> FALSE]
              ELSE Bind(cell_delist_subcell(s1, cell_parent(s1.h, cell)), LAMBDA t2 :
                   IF t2.next # NULL THEN destroy_loop(t2.s, t2.next, cell, fuel - 1)
                   ELSE Bind(destroy_climb(t2.s, cell, cell, fuel), LAMBDA c :
                          destroy_loop(c.s, c.next, c.del, fuel - 1)))))

\* c3bt_destroy: [frees, live, bad, done]; the fuel is more than the loop
\* iterations any tree needs (one per step down and one per cell finished)
c3bt_destroy(h, rt) ==
  Bind(destroy_loop([h |-> h, live |-> DOMAIN h, frees |-> <<>>, bad |-> FALSE],
                    rt, NULL, 2 * Cardinality(DOMAIN h) + 2), LAMBDA r :
  Bind(destroy_free(r.s, r.del), LAMBDA s :
    [frees |-> s.frees, live |-> s.live, bad |-> s.bad, done |-> r.done]))

(***************************************************************************)
(* c3bt_init.  kdt and kbits are unsigned ints; key_type and key_nbits are *)
(* uint16_t fields, so what is stored is the value modulo 2^16.            *)
(***************************************************************************)
\* the value assigned to tree->key_nbits in the switch, before the store
init_kbits(kdt, kbits) ==
  IF kdt = C3BT_KDT_BITS THEN kbits
  ELSE IF kdt \in {C3BT_KDT_PSTR, C3BT_KDT_STR} THEN (IF kbits = 0 THEN CBIT_MAX + 1 ELSE kbits)
  ELSE IF kdt \in {C3BT_KDT_U32, C3BT_KDT_S32} THEN 32
  ELSE 64

\* c3bt_init: [ret, key_type, key_nbits] (root and n_objects are zeroed)
c3bt_init(kdt, kbits) ==
  IF kdt \notin {C3BT_KDT_BITS, C3BT_KDT_PSTR, C3BT_KDT_STR, C3BT_KDT_U32, C3BT_KDT_S32,
                 C3BT_KDT_U64, C3BT_KDT_S64}
  THEN [ret |-> FALSE, key_type |-> kdt % 65536, key_nbits |-> 0]
  ELSE [ret |-> TRUE, key_type |-> kdt % 65536,
        key_nbits |-> IF init_kbits(kdt, kbits) % 65536 > CBIT_MAX + 1 THEN CBIT_MAX + 1
                      ELSE init_kbits(kdt, kbits) % 65536]

\* the key_nbits of a tree after c3bt_init
c3bt_init_nbits(kdt, kbits) == c3bt_init(kdt, kbits).key_nbits

EmptyHeap == [a \in {} |-> FreshCell]

(***************************************************************************)
(* The callers.  A driver runs a script of add and remove calls, as main   *)
(* does (src/c3bt-main.c), and may at any point leave it and make up to    *)
(* MaxCalls further calls on any of its user objects.                      *)
(***************************************************************************)
\* the user objects a caller passes to a tree of this key type
Offered == IF key_type = C3BT_KDT_STR THEN StrObjs ELSE U32Objs

ObjBase(kdt) == IF kdt = C3BT_KDT_STR THEN StrBase ELSE UobjBase
ScriptLen(kdt) == IF kdt = C3BT_KDT_STR THEN NStrs ELSE NKeys

\* for (i = 0; i < ASIZE; i++) c3bt_add(&tree, array + i);
AddAll(kdt) == [i \in 1..ScriptLen(kdt) |-> <<"add", ObjBase(kdt) + i>>]
\* for (i = 0; i < ASIZE; i += 2) c3bt_remove(&tree, array + i);
RemoveEven(kdt) == [i \in 1..((ScriptLen(kdt) + 1) \div 2) |-> <<"remove", ObjBase(kdt) + 2 * i - 1>>]
\* for (i = 0; i < ASIZE; i += 2) c3bt_add(&tree, array + i);
AddEven(kdt) == [i \in 1..((ScriptLen(kdt) + 1) \div 2) |-> <<"add", ObjBase(kdt) + 2 * i - 1>>]
RemoveButLast(kdt) == [i \in 1..(ScriptLen(kdt) - 1) |-> <<"remove", ObjBase(kdt) + i>>]
AddButLast(kdt) == [i \in 1..(ScriptLen(kdt) - 1) |-> <<"add", ObjBase(kdt) + i>>]
RemoveAll(kdt) == [i \in 1..ScriptLen(kdt) |-> <<"remove", ObjBase(kdt) + i>>]
AddAllDown(kdt) == [i \in 1..ScriptLen(kdt) |-> <<"add", ObjBase(kdt) + ScriptLen(kdt) + 1 - i>>]
RemoveAllDown(kdt) == [i \in 1..ScriptLen(kdt) |-> <<"remove", ObjBase(kdt) + ScriptLen(kdt) + 1 - i>>]

Scripts == {"main", "churn", "down"}

ScriptOf(name, kdt) ==
  IF name = "main" THEN AddAll(kdt) \o RemoveEven(kdt) \o AddEven(kdt)
  ELSE IF name = "churn" THEN AddAll(kdt) \o RemoveButLast(kdt) \o AddButLast(kdt) \o RemoveAll(kdt)
  ELSE AddAllDown(kdt) \o RemoveAll(kdt) \o AddAllDown(kdt) \o RemoveAllDown(kdt)

NoCall == [op |-> "init", uobj |-> NULL, ret |-> TRUE, pd |-> 0, split |-> FALSE,
           pushup |-> FALSE, merge |-> "no", freed |-> <<>>]

\* the tree after c3bt_init, before the first call of the driver
TreeInit ==
  /\ key_type \in {C3BT_KDT_U32, C3BT_KDT_STR}
  /\ key_nbits = c3bt_init_nbits(key_type, 0)
  /\ heap = EmptyHeap
  /\ root = NULL
  /\ n_objects = 0
  /\ indexed = {}
  /\ fault = FALSE
  /\ last = NoCall
  /\ prev = NoCall
  /\ script \in Scripts
  /\ pc = 1
  /\ calls = 0
  /\ n_add_ok = 0
  /\ n_remove_ok = 0

Init ==
  /\ TreeInit
  /\ args = <<>>
  /\ result = <<>>

Add(uobj, oom) ==
  /\ ~fault
  /\ last.op # "destroy"
  /\ \E r \in {c3bt_add(heap, root, n_objects, key_type, key_nbits, uobj, oom)} :
         IF r.fault
         THEN fault' = TRUE /\ UNCHANGED <<heap, root, n_objects, indexed, last, prev, n_add_ok>>
         ELSE /\ heap' = r.h
              /\ root' = r.rt
              /\ n_objects' = r.n
              /\ indexed' = IF r.ret THEN indexed \cup {uobj} ELSE indexed
              /\ n_add_ok' = IF r.ret THEN n_add_ok + 1 ELSE n_add_ok
              /\ fault' = FALSE
              /\ last' = [op |-> "add", uobj |-> uobj, ret |-> r.ret, pd |-> r.pd,
                          split |-> r.split, pushup |-> FALSE, merge |-> "no", freed |-> <<>>]
              /\ prev' = last
  /\ UNCHANGED <<key_type, key_nbits, script, n_remove_ok>>

Remove(uobj) ==
  /\ ~fault
  /\ last.op # "destroy"
  /\ \E r \in {c3bt_remove(heap, root, n_objects, key_type, key_nbits, uobj)} :
         IF r.fault
         THEN fault' = TRUE /\ UNCHANGED <<heap, root, n_objects, indexed, last, prev, n_remove_ok>>
         ELSE /\ heap' = r.h
              /\ root' = r.rt
              /\ n_objects' = r.n
              /\ indexed' = IF r.ret THEN {o \in indexed : KeyOf(o) # KeyOf(uobj)} ELSE indexed
              /\ n_remove_ok' = IF r.ret THEN n_remove_ok + 1 ELSE n_remove_ok
              /\ fault' = FALSE
              /\ last' = [op |-> "remove", uobj |-> uobj, ret |-> r.ret, pd |-> 0,
                          split |-> FALSE, pushup |-> r.pushup, merge |-> r.merge, freed |-> <<>>]
              /\ prev' = last
  /\ UNCHANGED <<key_type, key_nbits, script, n_add_ok>>

\* the next call of the script
ScriptStep ==
  /\ pc <= Len(ScriptOf(script, key_type))
  /\ LET call == ScriptOf(script, key_type)[pc]
     IN  IF call[1] = "add" THEN Add(call[2], FALSE) ELSE Remove(call[2])
  /\ pc' = pc + 1
  /\ calls' = calls
  /\ UNCHANGED <<args, result>>

\* a call outside the script
FreeAdd ==
  /\ calls < MaxCalls
  /\ \E uobj \in Offered : \E oom \in BOOLEAN : Add(uobj, oom)
  /\ pc' = Len(ScriptOf(script, key_type)) + 1
  /\ calls' = calls + 1
  /\ UNCHANGED <<args, result>>

FreeRemove ==
  /\ calls < MaxCalls
  /\ \E uobj \in Offered : Remove(uobj)
  /\ pc' = Len(ScriptOf(script, key_type)) + 1
  /\ calls' = calls + 1
  /\ UNCHANGED <<args, result>>

Next == ScriptStep \/ FreeAdd \/ FreeRemove

Spec == Init /\ [][Next]_vars

\* c3bt_destroy as the last call of a driver: the tree structure is zeroed
Destroy ==
  /\ ~fault
  /\ last.op # "destroy"
  /\ \E r \in {c3bt_destroy(heap, root)} :
       /\ last' = [op |-> "destroy", uobj |-> NULL, ret |-> r.done /\ ~r.bad, pd |-> 0,
                   split |-> FALSE, pushup |-> FALSE, merge |-> "no", freed |-> r.frees]
       /\ prev' = last
       /\ fault' = (r.bad \/ ~r.done)
       /\ IF r.bad \/ ~r.done
          THEN UNCHANGED <<heap, root, n_objects, key_type, key_nbits, indexed>>
          ELSE /\ heap' = [a \in r.live |-> heap[a]]
               /\ root' = NULL
               /\ n_objects' = 0
               /\ key_type' = 0
               /\ key_nbits' = 0
               /\ indexed' = {}
  /\ pc' = Len(ScriptOf(script, key_type)) + 1
  /\ calls' = MaxCalls
  /\ UNCHANGED <<script, n_add_ok, n_remove_ok, args, result>>

NextDestroy == Next \/ Destroy

\* the drivers that end with c3bt_destroy
SpecDestroy == Init /\ [][NextDestroy]_vars

(***************************************************************************)
(* bitops_str called once, in diff mode, on a pair of strings.             *)
(***************************************************************************)
\* the zero-terminated strings of at most len bytes over StrBytes
RECURSIVE StringsUpTo(_)
StringsUpTo(len) ==
  IF len = 0 THEN {<<>>}
  ELSE StringsUpTo(len - 1) \cup {Append(p, b) : p \in StringsUpTo(len - 1), b \in StrBytes}

InitBitops ==
  /\ TreeInit
  /\ key_type = C3BT_KDT_STR
  /\ script = "main"
  /\ args \in [req : {-(nbits + 1) : nbits \in DiffLengths},
               key1 : StringsUpTo(MaxStrLen), key2 : StringsUpTo(MaxStrLen)]
  /\ result = <<>>

CallBitopsStr ==
  /\ result = <<>>
  /\ result' = <<bitops_str(args.req, args.key1, args.key2)>>
  /\ UNCHANGED <<heap, root, n_objects, key_type, key_nbits, indexed, fault, last, prev, script,
                 pc, calls, n_add_ok, n_remove_ok, args>>

NextBitops == CallBitopsStr

SpecBitops == InitBitops /\ [][NextBitops]_vars

(***************************************************************************)
(* c3bt_init called once with any key type and key length.                 *)
(***************************************************************************)
\* values of the kdt argument: the enumeration, one past it, and a value
\* that is a key type only after truncation to 16 bits
InitKdts == (C3BT_KDT_BITS..(C3BT_KDT_CUSTOM + 1)) \cup {65536 + C3BT_KDT_STR}

\* values of the kbits argument, a 32-bit unsigned int (up to 2^31 - 1 here)
InitKbits == {0, 1, 8, 32, 255, 256, 257, 1000, 65535, 65536, 65537, 65536 + 256, 2147483647}

InitArgs ==
  /\ TreeInit
  /\ key_type = C3BT_KDT_STR
  /\ script = "main"
  /\ args \in [kdt : InitKdts, kbits : InitKbits]
  /\ result = <<>>

CallInit ==
  /\ result = <<>>
  /\ \E r \in {c3bt_init(args.kdt, args.kbits)} :
       /\ result' = <<r.ret>>
       /\ key_type' = r.key_type
       /\ key_nbits' = r.key_nbits
  /\ root' = NULL
  /\ n_objects' = 0
  /\ UNCHANGED <<heap, indexed, fault, last, prev, script, pc, calls, n_add_ok, n_remove_ok, args>>

NextInit == CallInit

SpecInit == InitArgs /\ [][NextInit]_vars

(***************************************************************************)
(* cell_split called once on a full cell of any shape.  A shape gives, for *)
(* each of the nodes 1..7 numbered level by level, the node and the side   *)
(* it hangs from (every binary tree of 8 nodes has exactly one such        *)
(* numbering); the nodes sit in the slots in this order or in the reverse  *)
(* order, shifted round by 0 or 3 slots.  The nine external children are   *)
(* user objects, or user objects and three sub-cells.                      *)
(***************************************************************************)
RECURSIVE Shapes(_)
Shapes(k) ==
  IF k = 0 THEN {<<>>}
  ELSE UNION {{Append(sh, x) : x \in {y \in (0..(k - 1)) \X {0, 1} :
                                        \A i \in 1..Len(sh) :
                                          2 * sh[i][1] + sh[i][2] < 2 * y[1] + y[2]}} :
              sh \in Shapes(k - 1)}

\* the ways the nodes are laid out in the slots
Layouts == [up : BOOLEAN, shift : {0, 3}]

\* the slot of the k-th node
SlotOf(k, lay) ==
  IF k = 0 THEN 0
  ELSE (((IF lay.up THEN k ELSE NODES_PER_CELL - k) - 1 + lay.shift) % (NODES_PER_CELL - 1)) + 1

\* the child positions <<k, c>> of a shape that hold no node, numbered 2k + c
Externals(sh) ==
  {2 * y[1] + y[2] : y \in {z \in NodeIds \X {0, 1} : \A i \in 1..Len(sh) : sh[i] # z}}

\* the pointer slot of an external child: its rank among the externals
PtrOf(sh, x) == Cardinality({y \in Externals(sh) : y < x})

\* the pointer slots that hold sub-cells, and the addresses of those
SubSlots == {2, 5, 8}
SubAddrOf(e) == 8 * (MaxCells - (e \div 3))

\* the child byte at position <<k, c>>
ShapeChild(sh, lay, subs, k, c) ==
  IF \E i \in 1..Len(sh) : sh[i] = <<k, c>>
  THEN SlotOf(CHOOSE i \in 1..Len(sh) : sh[i] = <<k, c>>, lay)
  ELSE IF subs /\ PtrOf(sh, 2 * k + c) \in SubSlots
       THEN CHILD_CELL_BIT + PtrOf(sh, 2 * k + c)
       ELSE CHILD_UOBJ_BIT + PtrOf(sh, 2 * k + c)

\* the full cell of a shape, at the first cell address
FullCell(sh, lay, subs) ==
  [pnc |-> cell_make_pnc(NULL, NODES_PER_CELL),
   N |-> [n \in NodeIds |->
            LET k == CHOOSE j \in NodeIds : SlotOf(j, lay) = n
            IN  [cbit |-> k, child |-> [c \in 0..1 |-> ShapeChild(sh, lay, subs, k, c)]]],
   P |-> [e \in PtrIds |-> IF subs /\ e \in SubSlots THEN SubAddrOf(e) ELSE UobjBase + 1 + e]]

\* a sub-cell of one node and two records below the full cell
SubCellOf(parent) ==
  [pnc |-> cell_make_pnc(parent, 1),
   N |-> [n \in NodeIds |->
            IF n = 0 THEN [cbit |-> CBIT_MAX, child |-> [c \in 0..1 |-> CHILD_UOBJ_BIT + c]]
            ELSE FreshCell.N[n]],
   P |-> [e \in PtrIds |-> IF e < 2 THEN UobjBase + NKeys - e ELSE NULL]]

ShapeHeap(sh, lay, subs) ==
  [a \in {8} \cup (IF subs THEN {SubAddrOf(e) : e \in SubSlots} ELSE {}) |->
     IF a = 8 THEN FullCell(sh, lay, subs) ELSE SubCellOf(8)]

InitSplit ==
  /\ args \in [shape : Shapes(NODES_PER_CELL - 1), layout : Layouts, subs : BOOLEAN]
  /\ heap = ShapeHeap(args.shape, args.layout, args.subs)
  /\ root = 8
  /\ n_objects = NODES_PER_CELL + 1 + (IF args.subs THEN Cardinality(SubSlots) ELSE 0)
  /\ key_type = C3BT_KDT_U32
  /\ key_nbits = c3bt_init_nbits(C3BT_KDT_U32, 0)
  /\ indexed = {}
  /\ fault = FALSE
  /\ last = NoCall
  /\ prev = NoCall
  /\ script = "main"
  /\ pc = 1
  /\ calls = 0
  /\ n_add_ok = 0
  /\ n_remove_ok = 0
  /\ result = <<>>

CallSplit ==
  /\ result = <<>>
  /\ \E r \in {cell_split(heap, root, FALSE)} :
       /\ result' = <<r.ok>>
       /\ heap' = r.h
       /\ fault' = r.fault
  /\ UNCHANGED <<root, n_objects, key_type, key_nbits, indexed, last, prev, script, pc, calls,
                 n_add_ok, n_remove_ok, args>>

NextSplit == CallSplit

SpecSplit == InitSplit /\ [][NextSplit]_vars

\* the drivers of trees of 32-bit keys only
SpecU32 == Init /\ key_type = C3BT_KDT_U32 /\ [][Next]_vars

(***************************************************************************)
(* Properties.  Keys are compared here by their value, not through the     *)
(* tree's bit extraction: 32-bit words as numbers, strings byte by byte    *)
(* with a string read as zero bytes past its end.                          *)
(***************************************************************************)
KeyIndexed(key) == \E o \in indexed : KeyOf(o) = key

\* the record that was added with this key
RecordOf(key) == CHOOSE o \in indexed : KeyOf(o) = key

RECURSIVE StrLess(_, _, _)
StrLess(p, q, i) ==
  IF CharAt(p, i) = 0 /\ CharAt(q, i) = 0 THEN FALSE
  ELSE IF CharAt(p, i) # CharAt(q, i) THEN CharAt(p, i) < CharAt(q, i)
  ELSE StrLess(p, q, i + 1)

KeyLess(o1, o2) ==
  IF key_type = C3BT_KDT_STR THEN StrLess(KeyOf(o1), KeyOf(o2), 0) ELSE KeyOf(o1) < KeyOf(o2)

\* bit b of a key, MSB first
KeyBit(o, b) ==
  IF key_type = C3BT_KDT_STR
  THEN (CharAt(KeyOf(o), b \div 8) \div (2 ^ (7 - (b % 8)))) % 2
  ELSE IF b > 31 THEN 0 ELSE BitAt(KeyOf(o), 32, b)

\* the keys looked up by value: those of the user objects and some of no object
ProbeKeys == {KeyTable[i] : i \in 1..Len(KeyTable)} \cup {0, 255}

\* the records returned by c3bt_first (c3bt_last) and then by repeated c3bt_next
\* (c3bt_prev) up to the first NULL; a walk longer than the user objects there
\* are is cut and marked with a NULL
RECURSIVE steps(_, _, _, _, _, _)
steps(h, n, kdt, cur, dir, fuel) ==
  LET r == tree_step(h, n, kdt, cur, dir)
  IN  IF r.robj = NULL THEN <<>>
      ELSE IF fuel = 0 THEN <<NULL>>
      ELSE <<r.robj>> \o steps(h, n, kdt, [cell |-> r.cell, nid |-> r.nid, cid |-> r.cid], dir, fuel - 1)

\* dir = 1: c3bt_first and c3bt_next; dir = 0: c3bt_last and c3bt_prev
traversal(h, rt, n, kdt, dir) ==
  LET f == tree_extreme(h, rt, n, 1 - dir)
  IN  IF f.robj = NULL THEN <<>>
      ELSE <<f.robj>> \o steps(h, n, kdt, [cell |-> f.cell, nid |-> f.nid, cid |-> f.cid], dir,
                               Cardinality(Uobjs))

Forward == traversal(heap, root, n_objects, key_type, 1)
Backward == traversal(heap, root, n_objects, key_type, 0)

\* C1: c3bt_locate and c3bt_find_u32 return a record for a key iff the key is
\* indexed (added successfully and not removed since), and the record returned
\* is the one that was added with that key
C1_LookupIffIndexed ==
  /\ \A uobj \in Offered :
       LET robj == c3bt_locate(heap, root, n_objects, key_type, key_nbits, uobj).robj
       IN  IF KeyIndexed(KeyOf(uobj)) THEN robj = RecordOf(KeyOf(uobj)) ELSE robj = NULL
  /\ key_type = C3BT_KDT_U32 =>
       \A key \in ProbeKeys :
         LET robj == c3bt_find_u32(heap, root, n_objects, key_type, key)
         IN  IF KeyIndexed(key) THEN robj = RecordOf(key) ELSE robj = NULL

\* C2: c3bt_first then repeated c3bt_next returns every indexed record exactly
\* once in strictly ascending key order and then NULL; c3bt_last then repeated
\* c3bt_prev returns every indexed record exactly once in strictly descending
\* key order and then NULL
C2_OrderedTraversal ==
  LET fw == Forward
      bw == Backward
  IN  /\ Len(fw) = Cardinality(indexed)
      /\ {fw[i] : i \in 1..Len(fw)} = indexed
      /\ \A i \in 1..(Len(fw) - 1) : KeyLess(fw[i], fw[i + 1])
      /\ Len(bw) = Cardinality(indexed)
      /\ {bw[i] : i \in 1..Len(bw)} = indexed
      /\ \A i \in 1..(Len(bw) - 1) : KeyLess(bw[i + 1], bw[i])

Cells == DOMAIN heap

\* the child bytes of the non-vacant nodes of a cell, as <<node, side>>
ChildBytes(h, cell) ==
  {x \in NodeIds \X {0, 1} : ~cell_node_is_vacant(h, cell, x[1])}

\* the child bytes of a cell that are tagged user object or sub-cell with index i
RefsTo(h, cell, i) ==
  {x \in ChildBytes(h, cell) :
     LET b == h[cell].N[x[1]].child[x[2]]
     IN  ~CHILD_IS_NODE(b) /\ IndexOf(b) = i}

\* the cbit values grow strictly from above along every path below child byte x
RECURSIVE CbitOrdered(_, _, _, _)
CbitOrdered(h, cell, x, above) ==
  IF CHILD_IS_NODE(x)
  THEN /\ h[cell].N[x].cbit > above
       /\ \A c \in 0..1 : CbitOrdered(h, cell, h[cell].N[x].child[c], h[cell].N[x].cbit)
  ELSE IF CHILD_IS_UOBJ(x) THEN TRUE
  ELSE h[cell].P[IndexOf(x)] # NULL => CbitOrdered(h, h[cell].P[IndexOf(x)], 0, above)

\* the user records reachable through child byte x of a cell
RECURSIVE Records(_, _, _)
Records(h, cell, x) ==
  IF CHILD_IS_NODE(x)
  THEN Records(h, cell, h[cell].N[x].child[0]) \cup Records(h, cell, h[cell].N[x].child[1])
  ELSE IF CHILD_IS_UOBJ(x) THEN {h[cell].P[IndexOf(x)]}
  ELSE IF h[cell].P[IndexOf(x)] = NULL THEN {}
  ELSE Records(h, h[cell].P[IndexOf(x)], 0)

\* C5: on every path from node 0 of the root cell down to a user record,
\* through in-cell nodes and into sub-cells, the cbit values of the nodes
\* visited are strictly increasing
C5_CbitIncreasing ==
  root # NULL => CbitOrdered(heap, root, 0, -1)

\* C6: with at least two indexed records, for every node with cbit = b and
\* each side s, every user record reachable through child[s] has bit b of its
\* key equal to s
C6_SidesMatchBits ==
  n_objects >= 2 =>
    \A cell \in Cells : \A x \in ChildBytes(heap, cell) :
      \A o \in Records(heap, cell, heap[cell].N[x[1]].child[x[2]]) :
        KeyBit(o, heap[cell].N[x[1]].cbit) = x[2]

\* C7: a pointer slot P[i] of a cell is non-null iff exactly one child byte of
\* a non-vacant node of the cell is tagged user object or sub-cell with index
\* i.  Stated here is the half that no slot stays occupied without being
\* referenced; the other half fails in the singleton tree, whose node 0 keeps a
\* sub-cell reference to the empty slot 1
C7_SlotsReferenced ==
  \A cell \in Cells : \A i \in PtrIds :
    heap[cell].P[i] # NULL => Cardinality(RefsTo(heap, cell, i)) = 1

\* C8: the population of a cell (the low 3 bits of pnc, plus 1) is between 1
\* and 8 and is the number of its node slots that are not marked vacant
C8_Population ==
  \A cell \in Cells :
    /\ cell_ncount(heap, cell) \in 1..NODES_PER_CELL
    /\ cell_ncount(heap, cell) = Cardinality({n \in NodeIds : ~cell_node_is_vacant(heap, cell, n)})

\* populations after a split, a push-down, a merge and a push-up
C8_Witness ==
  /\ Cardinality(DOMAIN heap) >= 2
  /\ \E cell \in Cells : cell_ncount(heap, cell) = NODES_PER_CELL
  /\ \E cell \in Cells : cell_ncount(heap, cell) < 3
  /\ last.op = "remove"
  /\ last.ret

\* the sub-cells held by the pointer slots of a cell
SubCells(h, cell) ==
  {h[cell].P[IndexOf(h[cell].N[x[1]].child[x[2]])] :
     x \in {y \in ChildBytes(h, cell) : CHILD_IS_CELL(h[cell].N[y[1]].child[y[2]])}} \ {NULL}

\* C9: the root cell's parent back-reference is null; every sub-cell's parent
\* back-reference is the cell whose pointer slot holds it, and exactly one
\* child byte of that parent is a sub-cell reference to that slot
C9_ParentAndAnchor ==
  /\ root # NULL => cell_parent(heap, root) = NULL
  /\ \A cell \in Cells \ {root} :
       LET parent == cell_parent(heap, cell)
           slots == {i \in PtrIds : parent \in Cells /\ heap[parent].P[i] = cell}
       IN  /\ parent \in Cells
           /\ Cardinality(slots) = 1
           /\ \A q \in Cells \ {parent} : \A i \in PtrIds : heap[q].P[i] # cell
           /\ \A i \in slots :
                Cardinality({x \in ChildBytes(heap, parent) :
                               heap[parent].N[x[1]].child[x[2]] = CHILD_CELL_BIT + i}) = 1

\* sub-cells two levels deep, and a root cell replaced by its sub-cell
C9_Witness ==
  /\ Cardinality(DOMAIN heap) >= 3
  /\ \E cell \in Cells \ {root} : cell_parent(heap, cell) # root
  /\ n_remove_ok > 0

\* C10: from a state S and a record x whose key is not indexed in S, a
\* successful c3bt_add(x) followed by c3bt_remove(x) gives the count and the
\* first/next traversal of S
C10_RoundTrip ==
  LET fw == Forward
  IN  \A x \in Offered :
        ~KeyIndexed(KeyOf(x)) =>
          LET a == c3bt_add(heap, root, n_objects, key_type, key_nbits, x, FALSE)
              r == c3bt_remove(a.h, a.rt, a.n, key_type, key_nbits, x)
          IN  (a.ret /\ ~a.fault /\ ~r.fault) =>
                /\ r.ret
                /\ r.n = n_objects
                /\ traversal(r.h, r.rt, r.n, key_type, 1) = fw

\* a successful c3bt_add followed by c3bt_remove of the same record, in a tree
\* of several cells
C10_Witness ==
  /\ prev.op = "add"
  /\ prev.ret
  /\ last.op = "remove"
  /\ last.ret
  /\ last.uobj = prev.uobj
  /\ Cardinality(DOMAIN heap) >= 2

\* C11: c3bt_remove of a record whose key is not indexed (in the empty tree, in
\* a singleton holding another key, in any other tree) returns false and
\* leaves the cells, the root and the count as they were; c3bt_locate of such
\* a record returns NULL
C11_NotFoundNoChange ==
  \A uobj \in Offered :
    ~KeyIndexed(KeyOf(uobj)) =>
      LET r == c3bt_remove(heap, root, n_objects, key_type, key_nbits, uobj)
      IN  /\ ~r.ret
          /\ ~r.fault
          /\ r.h = heap
          /\ r.rt = root
          /\ r.n = n_objects
          /\ c3bt_locate(heap, root, n_objects, key_type, key_nbits, uobj).robj = NULL

\* C12: a c3bt_add call in which malloc fails (on the empty tree, or inside
\* cell_split, after push-downs of the same call or without any) returns
\* false and leaves the cells, the root and the count as they were before the
\* call; a call with failing malloc that returns true has allocated nothing
C12_AllocFailureRollsBack ==
  \A uobj \in Offered :
    LET r == c3bt_add(heap, root, n_objects, key_type, key_nbits, uobj, TRUE)
    IN  ~r.fault =>
          IF r.ret
          THEN /\ ~r.split
               /\ DOMAIN r.h = DOMAIN heap
               /\ r.rt = root
          ELSE /\ r.h = heap
               /\ r.rt = root
               /\ r.n = n_objects

RECURSIVE TreeCells(_, _)
TreeCells(h, cell) == {cell} \cup UNION {TreeCells(h, c) : c \in SubCells(h, cell)}

RECURSIVE SumPopulation(_, _)
SumPopulation(h, S) ==
  IF S = {} THEN 0
  ELSE LET c == CHOOSE x \in S : TRUE
       IN  cell_ncount(h, c) + SumPopulation(h, S \ {c})

\* the sum of the populations of the cells of the tree
Population(h, rt) == IF rt = NULL THEN 0 ELSE SumPopulation(h, TreeCells(h, rt))

C15_DestroyFreesAll ==
  [][(last'.op = "destroy" /\ last.op # "destroy") =>
       /\ last'.ret
       /\ ~fault'
       /\ root' = NULL
       /\ n_objects' = 0
       /\ DOMAIN heap' = {}
       /\ Len(last'.freed) = Cardinality(DOMAIN heap)
       /\ {last'.freed[i] : i \in 1..Len(last'.freed)}
            = (IF root = NULL THEN {} ELSE TreeCells(heap, root))
       /\ \A i \in 1..Len(last'.freed) : last'.freed[i] \notin Offered]_vars

\* a tree of at least four cells was destroyed
C15_Witness ==
  /\ last.op = "destroy"
  /\ last.ret
  /\ Len(last.freed) >= 4
  /\ prev.op \in {"add", "remove"}

\* C16: whenever the cells of the tree hold exactly one record r, c3bt_first and
\* c3bt_last both return r, c3bt_next and c3bt_prev from that cursor return
\* NULL, and removing r returns true and leaves count 0, a null root with
\* the cell freed, and c3bt_first returning NULL.
C16_Singleton ==
  \A r \in Offered :
    (~fault /\ root # NULL /\ Records(heap, root, 0) = {r}) =>
      LET f == c3bt_first(heap, root, n_objects)
          l == c3bt_last(heap, root, n_objects)
          rm == c3bt_remove(heap, root, n_objects, key_type, key_nbits, r)
      IN  /\ n_objects = 1
          /\ f.robj = r
          /\ l.robj = r
          /\ c3bt_next(heap, n_objects, key_type, f).robj = NULL
          /\ c3bt_prev(heap, n_objects, key_type, f).robj = NULL
          /\ c3bt_next(heap, n_objects, key_type, l).robj = NULL
          /\ c3bt_prev(heap, n_objects, key_type, l).robj = NULL
          /\ rm.ret
          /\ ~rm.fault
          /\ rm.n = 0
          /\ rm.rt = NULL
          /\ DOMAIN rm.h = {}
          /\ c3bt_first(rm.h, rm.rt, rm.n).robj = NULL

\* the tree came down to one record by removals, from more than one cell
C16_Witness ==
  /\ ~fault
  /\ n_objects = 1
  /\ last.op = "remove"
  /\ last.ret
  /\ prev.op = "remove"
  /\ n_add_ok > NODES_PER_CELL + 1
  /\ n_remove_ok = n_add_ok - 1

\* the indexed records with a key greater (dir = 1) or smaller (dir = 0) than x's
Beyond(x, dir) ==
  {o \in indexed : IF dir = 1 THEN KeyLess(x, o) ELSE KeyLess(o, x)}

\* the nearest of them: the smallest key of the greater ones, the largest of
\* the smaller ones, NULL when there is none
Neighbour(x, dir) ==
  IF Beyond(x, dir) = {} THEN NULL
  ELSE CHOOSE o \in Beyond(x, dir) :
         \A p \in Beyond(x, dir) \ {o} : IF dir = 1 THEN KeyLess(o, p) ELSE KeyLess(p, o)

\* C17: for every indexed record x, c3bt_locate of x followed by c3bt_next
\* returns the indexed record with the smallest key greater than x's key, or
\* NULL if x has the largest key; c3bt_prev after the same locate returns the
\* record with the largest key smaller than x's key, or NULL if x has the
\* smallest key.
C17_LocateThenStep ==
  ~fault =>
    \A x \in indexed :
      LET cur == c3bt_locate(heap, root, n_objects, key_type, key_nbits, x)
      IN  /\ cur.robj = x
          /\ c3bt_next(heap, n_objects, key_type, cur).robj = Neighbour(x, 1)
          /\ c3bt_prev(heap, n_objects, key_type, cur).robj = Neighbour(x, 0)

\* bit b of a zero-terminated string, MSB first, 0 past its end
StrBitOf(p, b) == (CharAt(p, b \div 8) \div (2 ^ (7 - (b % 8)))) % 2

\* the first of the first nbits bits at which two strings differ, -1 if none
FirstDifferingBit(p, q, nbits) ==
  LET diffs == {b \in 0..(nbits - 1) : StrBitOf(p, b) # StrBitOf(q, b)}
  IN  IF diffs = {} THEN -1 ELSE CHOOSE b \in diffs : \A c \in diffs : b <= c

\* C18: bitops_str in diff mode with argument -(N+1) returns the index of
\* the first bit (MSB first, a string read as 0 bits past its end) at which
\* the two strings differ if that index is below N, and -1 if and only if
\* they agree on the first N bits; two strings that first differ in a byte
\* where both are non-zero are not reported as equal.
C18_FirstDifferingBit ==
  result # <<>> => result[1] = FirstDifferingBit(args.key1, args.key2, -args.req - 1)

\* C19: in a STR tree to which records with distinct strings are added, every
\* c3bt_add of a string not yet indexed succeeds, and the c3bt_first/c3bt_next
\* traversal yields all the records added, in lexicographic order with a
\* shorter string before its extensions.
C19_StringsInOrder ==
  (key_type = C3BT_KDT_STR /\ ~fault /\ n_remove_ok = 0) =>
    /\ \A uobj \in Offered :
         ~KeyIndexed(KeyOf(uobj)) =>
           c3bt_add(heap, root, n_objects, key_type, key_nbits, uobj, FALSE).ret
    /\ Len(Forward) = Cardinality(indexed)
    /\ {Forward[i] : i \in 1..Len(Forward)} = indexed
    /\ \A i \in 1..(Len(Forward) - 1) : KeyLess(Forward[i], Forward[i + 1])

\* C20: after every c3bt_init call that returns true, for any value of
\* kbits, key_nbits is in 1..256, and for key type BITS it equals
\* min(kbits, 256).
C20_KeyNbitsInRange ==
  (result # <<>> /\ result[1]) =>
    /\ key_nbits \in 1..(CBIT_MAX + 1)
    /\ args.kdt = C3BT_KDT_BITS =>
         key_nbits = (IF args.kbits < CBIT_MAX + 1 THEN args.kbits ELSE CBIT_MAX + 1)

\* C21: c3bt_init called with an unsupported key type returns false and leaves
\* the tree structure passed in (root, count, key configuration) exactly as
\* it was before the call.
C21_InvalidInitNoOp ==
  [][(result = <<>> /\ result' = <<FALSE>>) =>
       /\ args.kdt \notin {C3BT_KDT_BITS, C3BT_KDT_PSTR, C3BT_KDT_STR, C3BT_KDT_U32,
                          C3BT_KDT_S32, C3BT_KDT_U64, C3BT_KDT_S64}
       /\ UNCHANGED <<root, n_objects, key_type, key_nbits>>]_vars

\* the number of non-null pointer slots of a cell
PtrsInUse(h, cell) == Cardinality({i \in PtrIds : h[cell].P[i] # NULL})

\* C22: in every state reachable by c3bt_add and c3bt_remove calls no scan of
\* cell_alloc_ptr or cell_alloc_node has run past the arrays of a cell, and a
\* cell with k nodes has exactly k + 1 non-null pointer slots (the singleton
\* cell, with its one record, has one).
C22_ScansStayInside ==
  /\ ~fault
  /\ \A cell \in Cells :
       PtrsInUse(heap, cell) = (IF n_objects = 1 THEN 1 ELSE cell_ncount(heap, cell) + 1)

\* C23: cell_push_down on a full cell moves a node into a sub-cell only if
\* that sub-cell holds fewer than NODES_PER_CELL - 1 nodes before the move,
\* so that no push-down fills a sub-cell to NODES_PER_CELL nodes.
C23_PushDownLeavesRoom ==
  ~fault =>
    \A cell \in Cells :
      cell_ncount(heap, cell) = NODES_PER_CELL =>
        LET d == cell_push_down(heap, cell)
        IN  (d.ok /\ ~d.fault) =>
              \A sub \in SubCells(heap, cell) :
                cell_ncount(d.h, sub) # cell_ncount(heap, sub) =>
                  /\ cell_ncount(heap, sub) < NODES_PER_CELL - 1
                  /\ cell_ncount(d.h, sub) < NODES_PER_CELL

\* the in-cell subtree below node r: r and the nodes reached from it through
\* child bytes that are node indices
RECURSIVE InCellSubtree(_, _, _)
InCellSubtree(h, cell, r) ==
  {r} \cup UNION {InCellSubtree(h, cell, h[cell].N[r].child[c]) :
                    c \in {d \in 0..1 : CHILD_IS_NODE(h[cell].N[r].child[d])}}

\* the pointer slots referred to by the external child bytes of a set of nodes
SlotsOf(h, cell, S) ==
  {IndexOf(h[cell].N[x[1]].child[x[2]]) :
     x \in {y \in S \X {0, 1} : ~CHILD_IS_NODE(h[cell].N[y[1]].child[y[2]])}}

\* cell_split moved the subtree rooted at r of the cell old to the cell new
SplitAt(h, g, old, new, r) ==
  LET S == InCellSubtree(h, old, r)
      m == Cardinality(S)
      sizes == {Cardinality(InCellSubtree(h, old, i)) : i \in 1..(NODES_PER_CELL - 1)}
  IN  /\ IF 4 \in sizes THEN m = 4 ELSE m \in {3, 5}
      /\ cell_ncount(g, new) = m
      /\ cell_ncount(g, old) = NODES_PER_CELL - m
      /\ cell_parent(g, new) = old
      /\ cell_parent(g, old) = cell_parent(h, old)
      /\ g[new].N[0] = h[old].N[r]
      /\ \A n \in NodeIds \ {0} :
           IF n \in S \ {r} THEN g[new].N[n] = h[old].N[n] ELSE cell_node_is_vacant(g, new, n)
      /\ \A n \in NodeIds :
           IF n \in S THEN cell_node_is_vacant(g, old, n)
           ELSE /\ g[old].N[n].cbit = h[old].N[n].cbit
                /\ \A c \in 0..1 :
                     IF h[old].N[n].child[c] = r
                     THEN /\ CHILD_IS_CELL(g[old].N[n].child[c])
                          /\ g[old].P[IndexOf(g[old].N[n].child[c])] = new
                     ELSE g[old].N[n].child[c] = h[old].N[n].child[c]
      /\ \A e \in PtrIds :
           IF e \in SlotsOf(h, old, S)
           THEN /\ g[new].P[e] = h[old].P[e]
                /\ g[old].P[e] \in {NULL, new}
           ELSE /\ g[new].P[e] = NULL
                /\ g[old].P[e] = h[old].P[e]
      /\ \A sub \in DOMAIN h \ {old} :
           IF sub \in {h[old].P[e] : e \in SlotsOf(h, old, S)}
           THEN g[sub] = [h[sub] EXCEPT !.pnc = cell_make_pnc(new, cell_ncount(h, sub))]
           ELSE g[sub] = h[sub]

\* C24: for every shape of a full cell, cell_split moves to the new cell a
\* whole in-cell subtree rooted at a node other than node 0, of exactly 4
\* nodes whenever some such subtree has 4 nodes and otherwise of 3 or 5
\* nodes; afterwards the new cell's population is the moved count, the old
\* cell's population is 8 minus that count, the moved subtree's root is node
\* 0 of the new cell, and the old cell holds a sub-cell reference to the new
\* cell at the position the moved root occupied.
C24_SplitBalanced ==
  [][(result = <<>> /\ result' # <<>>) =>
       /\ result' = <<TRUE>>
       /\ ~fault'
       /\ Cardinality(DOMAIN heap' \ DOMAIN heap) = 1
       /\ DOMAIN heap \subseteq DOMAIN heap'
       /\ \E new \in DOMAIN heap' \ DOMAIN heap : \E r \in 1..(NODES_PER_CELL - 1) :
            SplitAt(heap, heap', root, new, r)]_vars

\* a cell with no subtree of 4 nodes and with sub-cells among the children
\* moved was split 5 + 3
C24_Witness ==
  /\ result = <<TRUE>>
  /\ args.subs
  /\ cell_ncount(heap, root) = 3
  /\ \E new \in SubCells(heap, root) :
       /\ cell_ncount(heap, new) = 5
       /\ SubCells(heap, new) # {}

\* the composite tree below child byte x of a cell, sub-cell edges inlined:
\* <<record>> for a leaf, <<cbit, side 0, side 1>> for an internal node
RECURSIVE Composite(_, _, _)
Composite(h, cell, x) ==
  IF CHILD_IS_NODE(x)
  THEN <<h[cell].N[x].cbit, Composite(h, cell, h[cell].N[x].child[0]),
         Composite(h, cell, h[cell].N[x].child[1])>>
  ELSE IF CHILD_IS_UOBJ(x) THEN <<h[cell].P[IndexOf(x)]>>
  ELSE IF h[cell].P[IndexOf(x)] = NULL THEN <<>>
  ELSE Composite(h, h[cell].P[IndexOf(x)], 0)

\* the composite tree of a tree; the singleton cell holds its record in P[0]
CompositeTree(h, rt, n) ==
  IF rt = NULL THEN <<>>
  ELSE IF n = 1 THEN <<h[rt].P[0]>>
  ELSE Composite(h, rt, 0)

\* the plain crit-bit tree of a set of records with distinct keys: a leaf for
\* one record, otherwise a node at the first bit at which two of the keys
\* differ, over the trees of the keys with a 0 and with a 1 at that bit
RECURSIVE CritBitTree(_)
CritBitTree(S) ==
  IF S = {} THEN <<>>
  ELSE IF Cardinality(S) = 1 THEN <<CHOOSE o \in S : TRUE>>
  ELSE LET o1 == CHOOSE o \in S : TRUE
           split == {b \in 0..CBIT_MAX : \E p \in S : KeyBit(o1, b) # KeyBit(p, b)}
           b == CHOOSE c \in split : \A d \in split : c <= d
       IN  <<b, CritBitTree({o \in S : KeyBit(o, b) = 0}),
                CritBitTree({o \in S : KeyBit(o, b) = 1})>>

C26_MergeAddsPopulations ==
  \A uobj \in Offered :
    LET r == c3bt_remove(heap, root, n_objects, key_type, key_nbits, uobj)
        gone == DOMAIN heap \ DOMAIN r.h
    IN  (~fault /\ r.merge # "no") =>
          /\ ~r.fault
          /\ Cardinality(gone) = 1
          /\ \A cell \in gone :
               LET parent == cell_parent(heap, cell)
               IN  /\ parent \in DOMAIN r.h
                   /\ cell_ncount(r.h, parent) =
                        cell_ncount(heap, parent) + cell_ncount(heap, cell) - 1
                   /\ cell_ncount(r.h, parent) <= NODES_PER_CELL
                   /\ cell_ncount(r.h, parent) =
                        Cardinality({n \in NodeIds : ~cell_node_is_vacant(r.h, parent, n)})
                   /\ cell \notin SubCells(r.h, parent)
                   /\ \A sub \in SubCells(heap, cell) :
                        /\ sub \in SubCells(r.h, parent)
                        /\ cell_parent(r.h, sub) = parent
                   /\ SubCells(r.h, parent) =
                        (SubCells(heap, parent) \ {cell}) \cup SubCells(heap, cell)

\* a merge in a tree of three or more cells: the receiving cell or the merged
\* cell had a sub-cell
C26_Witness ==
  /\ last.op = "remove"
  /\ last.ret
  /\ last.merge # "no"
  /\ ~fault
  /\ Cardinality(DOMAIN heap) >= 3
  /\ \E cell \in Cells : cell_ncount(heap, cell) >= 4 /\ SubCells(heap, cell) # {}

\* ---------------------------------------------------------------------------
\* C27: a c3bt_remove that takes a node out of cell C without push-up or
\* singleton conversion merges C into its parent exactly when C has a parent
\* and the population of C after the removal plus the population of the
\* parent is at most NODES_PER_CELL, and folds no cell other than C into
\* another cell
C27_MergeUpOnly ==
  \A uobj \in Offered :
    LET loc == c3bt_locate(heap, root, n_objects, key_type, key_nbits, uobj)
        r == c3bt_remove(heap, root, n_objects, key_type, key_nbits, uobj)
        C == loc.cell
        parent == cell_parent(heap, C)
    IN  (~fault /\ ~r.fault /\ r.ret /\ ~r.pushup /\ n_objects > 2) =>
          /\ C \notin DOMAIN r.h <=>
               /\ parent # NULL
               /\ cell_ncount(heap, C) - 1 + cell_ncount(heap, parent) <= NODES_PER_CELL
          /\ C \notin DOMAIN r.h => parent \in DOMAIN r.h
          /\ DOMAIN heap \ DOMAIN r.h \subseteq {C}

\* ---------------------------------------------------------------------------
\* the cells that differ between two heaps: allocated, freed or written
Changed(h1, h2) ==
  {c \in DOMAIN h1 \cup DOMAIN h2 :
     c \notin DOMAIN h1 \/ c \notin DOMAIN h2 \/ h1[c] # h2[c]}

\* the changed cells of which more than the parent back-reference differs
Rewritten(h1, h2) ==
  {c \in Changed(h1, h2) :
     \/ c \notin DOMAIN h1
     \/ c \notin DOMAIN h2
     \/ h1[c].N # h2[c].N
     \/ h1[c].P # h2[c].P
     \/ cell_ncount(h1, c) # cell_ncount(h2, c)}

\* s is a direct sub-cell of p before or after the step
Adjacent(h1, h2, p, s) ==
  \/ s \in DOMAIN h1 /\ cell_parent(h1, s) = p
  \/ s \in DOMAIN h2 /\ cell_parent(h2, s) = p

\* the step from h1 to h2 wrote to at most two cells, a parent and one of
\* its direct sub-cells, and left every other cell unchanged
TwoCells(h1, h2) ==
  \E p \in DOMAIN h1 \cup DOMAIN h2 : \E s \in DOMAIN h1 \cup DOMAIN h2 :
    /\ s = p \/ Adjacent(h1, h2, p, s)
    /\ Changed(h1, h2) \subseteq {p, s}

\* the step from h1 to h2 wrote the nodes, pointer slots and population of at
\* most two cells, a parent and one of its direct sub-cells; any other cell
\* that changed is a sub-cell that hung off one of the two and now hangs off
\* one of the two, and only its parent back-reference was retargeted; every
\* sub-cell of the two names the cell that holds it
TwoCellsAndBackRefs(h1, h2) ==
  \E p \in DOMAIN h1 \cup DOMAIN h2 : \E s \in DOMAIN h1 \cup DOMAIN h2 :
    /\ s = p \/ Adjacent(h1, h2, p, s)
    /\ Rewritten(h1, h2) \subseteq {p, s}
    /\ \A c \in Changed(h1, h2) \ {p, s} :
         /\ cell_parent(h1, c) \in {p, s}
         /\ cell_parent(h2, c) \in {p, s}
         /\ c \in SubCells(h1, cell_parent(h1, c))
         /\ c \in SubCells(h2, cell_parent(h2, c))
    /\ \A x \in {p, s} \cap DOMAIN h2 : \A c \in SubCells(h2, x) : cell_parent(h2, c) = x

\* every single rebalance step that can be taken in the current state
\* satisfies Q: cell_push_down on a full cell, cell_split on a full cell that
\* cannot push down, and the cell_merge or push-up of a c3bt_remove (together
\* with the removal of the node from the cell)
EveryRebalanceStep(Q(_, _)) ==
  ~fault =>
    /\ \A cell \in Cells :
         cell_ncount(heap, cell) = NODES_PER_CELL /\ n_objects > NODES_PER_CELL =>
           LET d == cell_push_down(heap, cell)
               s == cell_split(heap, cell, FALSE)
           IN  /\ (d.ok /\ ~d.fault) => Q(heap, d.h)
               /\ (~d.ok /\ s.ok /\ ~s.fault) => Q(heap, s.h)
    /\ \A uobj \in Offered :
         LET r == c3bt_remove(heap, root, n_objects, key_type, key_nbits, uobj)
         IN  (r.ret /\ ~r.fault /\ (r.pushup \/ r.merge # "no")) => Q(heap, r.h)

\* C28 as stated: each single rebalance step performed on a write path writes
\* to at most two cells, a parent cell and one of its direct sub-cells; every
\* other cell of the tree, parent back-references included, is left unchanged
C28_TwoCellsOnly == EveryRebalanceStep(TwoCells)

\* C28: each single rebalance step writes the nodes, pointer slots and
\* population of at most two cells, a parent cell and one of its direct
\* sub-cells; the only other writes retarget the parent back-reference of the
\* sub-cells that moved from one of the two cells to the other
C28_TwoCellsAndBackRefs == EveryRebalanceStep(TwoCellsAndBackRefs)

\* a removal has merged or pushed up in a tree that still has three or more
\* cells, one of them a sub-cell of a sub-cell
C28_Witness ==
  /\ last.op = "remove"
  /\ last.ret
  /\ last.pushup \/ last.merge # "no"
  /\ ~fault
  /\ \E c \in Cells : cell_parent(heap, c) # NULL /\ cell_parent(heap, cell_parent(heap, c)) # NULL

\* ---------------------------------------------------------------------------
\* the pnc words of heap h are intact: the population bits of every cell
\* count its non-vacant nodes and the parent bits are null for the root cell
\* and otherwise the address of the cell that holds it.  A carry out of or a
\* borrow into the population bits breaks both
PncIntact(h, rt) ==
  \A c \in DOMAIN h :
    /\ cell_ncount(h, c) = Cardinality({n \in NodeIds : ~cell_node_is_vacant(h, c, n)})
    /\ IF c = rt THEN cell_parent(h, c) = NULL
       ELSE /\ cell_parent(h, c) \in DOMAIN h
            /\ c \in SubCells(h, cell_parent(h, c))

\* the cell c3bt_add chooses for the new node before it makes room
ChosenCell(h, rt, n, kdt, nbits, uobj) ==
  LET key == KeyOf(uobj)
      loc == tree_lookup(h, rt, n, kdt, key)
      cbit_nr == bitops(kdt, -(nbits + 1), key, KeyOf(loc.robj))
  IN  IF cbit_nr > h[loc.cell].N[loc.nid].cbit THEN loc.cell
      ELSE add_search(h, kdt, key, cbit_nr, rt, INVALID_NODE, loc.cid, 0).cell

\* some cell holds more non-null pointer slots than its nodes account for
StaleSlot(h) == \E c \in DOMAIN h : PtrsInUse(h, c) > cell_ncount(h, c) + 1

\* C29: c3bt_add never commits a new node to a cell that holds
\* NODES_PER_CELL nodes (a full chosen cell is pushed down or split first, and
\* no node allocation finds the cell without a vacant node); in every
\* operation cell_inc_ncount is applied only to a cell with fewer than
\* NODES_PER_CELL nodes and cell_dec_ncount leaves at least one, so the pnc
\* words stay intact after every c3bt_add, c3bt_remove, cell_push_down and
\* cell_split: no carry into and no borrow from the parent bits
C29_NoCarryNoBorrow ==
  ~fault =>
    /\ PncIntact(heap, root)
    /\ \A uobj \in Offered : \A oom \in BOOLEAN :
         LET r == c3bt_add(heap, root, n_objects, key_type, key_nbits, uobj, oom)
         IN  /\ r.fault => StaleSlot(heap)
             /\ ~r.fault => PncIntact(r.h, r.rt)
             /\ (r.ret /\ n_objects >= 2) =>
                  /\ cell_ncount(heap,
                       ChosenCell(heap, root, n_objects, key_type, key_nbits, uobj))
                       = NODES_PER_CELL => (r.pd > 0 \/ r.split)
                  /\ \E c \in DOMAIN r.h : \E i \in PtrIds :
                       /\ r.h[c].P[i] = uobj
                       /\ cell_ncount(r.h, c) >= 2
                       /\ c \in DOMAIN heap => r.h[c].pnc \div 8 = heap[c].pnc \div 8
    /\ \A uobj \in Offered :
         LET r == c3bt_remove(heap, root, n_objects, key_type, key_nbits, uobj)
         IN  /\ ~r.fault
             /\ PncIntact(r.h, r.rt)
    /\ \A cell \in Cells :
         cell_ncount(heap, cell) = NODES_PER_CELL /\ n_objects > NODES_PER_CELL =>
           LET d == cell_push_down(heap, cell)
               s == cell_split(heap, cell, FALSE)
           IN  /\ ~d.fault
               /\ d.ok =>
                    /\ PncIntact(d.h, root)
                    /\ \A c \in Cells :
                         /\ d.h[c].pnc > heap[c].pnc => cell_ncount(heap, c) < NODES_PER_CELL
                         /\ d.h[c].pnc \div 8 = heap[c].pnc \div 8
                              \/ cell_parent(heap, c) = cell
               /\ ~d.ok =>
                    /\ ~s.fault
                    /\ PncIntact(s.h, root)
                    /\ s.h[cell].pnc \div 8 = heap[cell].pnc \div 8

\* an add has found its cell full, pushed a node down, split the full
\* sub-cell it was sent to and committed
C29_Witness ==
  /\ last.op = "add"
  /\ last.ret
  /\ last.pd > 0
  /\ last.split
  /\ ~fault
  /\ PncIntact(heap, root)

\* ---------------------------------------------------------------------------
\* the cells allocated and not freed are the cells reachable from the root
NoLeakNoDangling(h, rt) ==
  IF rt = NULL THEN DOMAIN h = {}
  ELSE /\ rt \in DOMAIN h
       /\ \A c \in DOMAIN h : \A s \in SubCells(h, c) : s \in DOMAIN h
       /\ TreeCells(h, rt) = DOMAIN h

\* C30: over any sequence of c3bt_add and c3bt_remove calls the cells
\* allocated and not freed are exactly the cells reachable from the tree root;
\* one c3bt_add allocates at most one cell, and only when it bootstraps an
\* empty tree or splits; one c3bt_remove frees at most one cell, and only on
\* push-up, merge or removal of the last record
C30_CellsAreTheTree ==
  ~fault =>
    /\ NoLeakNoDangling(heap, root)
    /\ \A uobj \in Offered : \A oom \in BOOLEAN :
         LET r == c3bt_add(heap, root, n_objects, key_type, key_nbits, uobj, oom)
             new == DOMAIN r.h \ DOMAIN heap
         IN  ~r.fault =>
               /\ NoLeakNoDangling(r.h, r.rt)
               /\ DOMAIN heap \subseteq DOMAIN r.h
               /\ Cardinality(new) <= 1
               /\ new # {} => (r.ret /\ ~oom /\ (root = NULL \/ r.split))
               /\ (r.ret /\ (root = NULL \/ r.split)) => new # {}
    /\ \A uobj \in Offered :
         LET r == c3bt_remove(heap, root, n_objects, key_type, key_nbits, uobj)
             gone == DOMAIN heap \ DOMAIN r.h
         IN  ~r.fault =>
               /\ NoLeakNoDangling(r.h, r.rt)
               /\ DOMAIN r.h \subseteq DOMAIN heap
               /\ Cardinality(gone) <= 1
               /\ gone # {} => (r.ret /\ (r.pushup \/ r.merge # "no" \/ r.n = 0))
               /\ (r.ret /\ (r.pushup \/ r.merge # "no" \/ r.n = 0)) => gone # {}

\* a removal has freed a cell of a tree that keeps several, after adds that
\* split
C30_Witness ==
  /\ last.op = "remove"
  /\ last.ret
  /\ last.pushup \/ last.merge # "no"
  /\ prev.op = "add"
  /\ ~fault
  /\ Cardinality(DOMAIN heap) >= 2
  /\ NoLeakNoDangling(heap, root)

(***************************************************************************)
(* c3bt_add in steps: the call up to the label next, then one action per   *)
(* pass through the make-room test, so that the loop of push-down, split   *)
(* and re-search is a sequence of states.  args holds the locals of the    *)
(* call in flight, result its return value.                                *)
(***************************************************************************)
\* the locals of a call that has reached the make-room test
AddLocals(uobj, key, cbit_nr, bit, cur) ==
  [uobj |-> uobj, key |-> key, cbit_nr |-> cbit_nr, bit |-> bit, cur |-> cur,
   pd |-> 0, splits |-> 0]

\* c3bt_add from its entry to the make-room test; the calls that never reach
\* the test (empty tree, singleton, key present) return here
AddCall(uobj) ==
  /\ ~fault
  /\ last.op # "destroy"
  /\ args = <<>>
  /\ result = <<>>
  /\ \E key \in {KeyOf(uobj)} :
     \E loc \in {tree_lookup(heap, root, n_objects, key_type, key)} :
     \E cbit_nr \in {IF root = NULL THEN -1
                     ELSE bitops(key_type, -(key_nbits + 1), key, KeyOf(loc.robj))} :
       IF root = NULL \/ cbit_nr = -1 \/ n_objects = 1
       THEN \E oom \in BOOLEAN :
            \E r \in {c3bt_add(heap, root, n_objects, key_type, key_nbits, uobj, oom)} :
              /\ heap' = r.h
              /\ root' = r.rt
              /\ n_objects' = r.n
              /\ indexed' = IF r.ret THEN indexed \cup {uobj} ELSE indexed
              /\ n_add_ok' = IF r.ret THEN n_add_ok + 1 ELSE n_add_ok
              /\ result' = <<r.ret>>
              /\ args' = args
       ELSE /\ args' = AddLocals(uobj, key, cbit_nr, bitops(key_type, cbit_nr, key, NULL),
                         IF cbit_nr > heap[loc.cell].N[loc.nid].cbit
                         THEN [cell |-> loc.cell, nid |-> loc.nid, cid |-> loc.cid,
                               lower |-> heap[loc.cell].N[loc.nid].child[loc.cid]]
                         ELSE add_search(heap, key_type, key, cbit_nr, root, INVALID_NODE,
                                         loc.cid, 0))
            /\ UNCHANGED <<heap, root, n_objects, indexed, n_add_ok, result>>
  /\ UNCHANGED <<key_type, key_nbits, fault, last, prev, script, pc, calls, n_remove_ok>>

\* the search from the label next in the cell the cursor is in
AddResearch(h) ==
  add_search(h, key_type, args.key, args.cbit_nr, args.cur.cell, INVALID_NODE,
             args.cur.cid, 0)

\* the cell is full and cell_push_down succeeds: goto next
AddPushDown ==
  /\ args # <<>>
  /\ result = <<>>
  /\ ~fault
  /\ cell_ncount(heap, args.cur.cell) = NODES_PER_CELL
  /\ \E d \in {cell_push_down(heap, args.cur.cell)} :
       /\ d.ok
       /\ IF d.fault
          THEN fault' = TRUE /\ UNCHANGED <<heap, args>>
          ELSE /\ heap' = d.h
               /\ args' = [args EXCEPT !.cur = AddResearch(d.h), !.pd = @ + 1]
               /\ fault' = fault
  /\ UNCHANGED <<root, n_objects, key_type, key_nbits, indexed, last, prev, script, pc,
                 calls, n_add_ok, n_remove_ok, result>>

\* the cell is full, cell_push_down fails and cell_malloc returns NULL:
\* cell_split fails and the call returns false
AddSplitFails ==
  /\ args # <<>>
  /\ result = <<>>
  /\ ~fault
  /\ cell_ncount(heap, args.cur.cell) = NODES_PER_CELL
  /\ ~cell_push_down(heap, args.cur.cell).ok
  /\ result' = <<FALSE>>
  /\ UNCHANGED <<heap, root, n_objects, key_type, key_nbits, indexed, fault, last, prev,
                 script, pc, calls, n_add_ok, n_remove_ok, args>>

\* the cell is full and cell_push_down fails: cell_split, then goto next
AddSplit ==
  /\ args # <<>>
  /\ result = <<>>
  /\ ~fault
  /\ cell_ncount(heap, args.cur.cell) = NODES_PER_CELL
  /\ ~cell_push_down(heap, args.cur.cell).ok
  /\ \E s \in {cell_split(heap, args.cur.cell, FALSE)} :
       IF s.fault
       THEN fault' = TRUE /\ UNCHANGED <<heap, args, result>>
       ELSE IF ~s.ok
       THEN result' = <<FALSE>> /\ UNCHANGED <<heap, args, fault>>
       ELSE /\ heap' = s.h
            /\ args' = [args EXCEPT !.cur = AddResearch(s.h), !.splits = @ + 1]
            /\ UNCHANGED <<fault, result>>
  /\ UNCHANGED <<root, n_objects, key_type, key_nbits, indexed, last, prev, script, pc,
                 calls, n_add_ok, n_remove_ok>>

\* the cell has room: the new node is linked and the call returns true
AddCommit ==
  /\ args # <<>>
  /\ result = <<>>
  /\ ~fault
  /\ cell_ncount(heap, args.cur.cell) # NODES_PER_CELL
  /\ \E r \in {add_commit(heap, root, n_objects, args.cur, args.cbit_nr, args.bit,
                          args.uobj, args.pd, args.splits > 0)} :
       IF r.fault
       THEN fault' = TRUE /\ UNCHANGED <<heap, n_objects, indexed, n_add_ok, result>>
       ELSE /\ heap' = r.h
            /\ n_objects' = r.n
            /\ indexed' = indexed \cup {args.uobj}
            /\ n_add_ok' = n_add_ok + 1
            /\ result' = <<r.ret>>
            /\ fault' = fault
  /\ UNCHANGED <<root, key_type, key_nbits, last, prev, script, pc, calls, n_remove_ok, args>>

\* the steps of a call in flight
AddLoop == AddCommit \/ AddPushDown \/ AddSplitFails \/ AddSplit

\* the driver builds a tree; then one c3bt_add runs in steps
DriverStep == args = <<>> /\ result = <<>> /\ Next

NextAddLoop ==
  \/ DriverStep
  \/ \E uobj \in Offered : AddCall(uobj)
  \/ AddLoop

\* a call that has been entered runs on: the steps of the call are taken as
\* long as one is enabled
SpecAddLoop == Init /\ [][NextAddLoop]_vars /\ WF_vars(AddLoop)

\* ---------------------------------------------------------------------------
\* a call of c3bt_add is in its make-room loop
AddInFlight == args # <<>> /\ result = <<>> /\ ~fault

\* C31: every c3bt_add call terminates: a call that has reached the
\* make-room loop commits the new node or returns false (or ends in the
\* overrun of a scan); while it runs it has made no more push-downs than the
\* tree has sub-cells and at most one split, and after a split the cell the
\* search ends in has room, so the next step commits
C31_AddTerminates ==
  /\ [](args # <<>> =>
          /\ args.splits <= 1
          /\ args.pd < Cardinality(DOMAIN heap)
          /\ (AddInFlight /\ args.splits = 1) =>
               cell_ncount(heap, args.cur.cell) < NODES_PER_CELL)
  /\ (args # <<>>) ~> (result # <<>> \/ fault)

\* a call has pushed a node down, split the sub-cell it was sent to, and
\* committed
C31_Witness ==
  /\ args # <<>>
  /\ args.pd > 0
  /\ args.splits = 1
  /\ result = <<TRUE>>
  /\ ~fault

\* ---------------------------------------------------------------------------
\* the child bytes of the non-vacant nodes of a cell that are node index n
NodeRefs(h, cell, n) ==
  {x \in ChildBytes(h, cell) : h[cell].N[x[1]].child[x[2]] = n}

\* the non-vacant node slots of a cell
NodesInUse(h, cell) == {n \in NodeIds : ~cell_node_is_vacant(h, cell, n)}

\* C32: in every reachable state with at least two indexed records the
\* non-vacant node slots of each cell form a binary tree rooted at node slot
\* 0: node 0 is non-vacant and no in-cell child byte refers to it, every
\* other non-vacant node slot is referred to by exactly one in-cell child
\* byte of a non-vacant node, which cell_node_parent finds, no child byte
\* refers to a vacant node slot, and every non-vacant node is reached from
\* node 0
C32_NodesFormTree ==
  (~fault /\ n_objects >= 2) =>
    \A cell \in Cells :
      /\ 0 \in NodesInUse(heap, cell)
      /\ NodeRefs(heap, cell, 0) = {}
      /\ \A n \in NodesInUse(heap, cell) \ {0} :
           /\ Cardinality(NodeRefs(heap, cell, n)) = 1
           /\ cell_node_parent(heap, cell, n) < 2 * NODES_PER_CELL
           /\ <<cell_node_parent(heap, cell, n) \div 2, cell_node_parent(heap, cell, n) % 2>>
                \in NodeRefs(heap, cell, n)
      /\ \A x \in ChildBytes(heap, cell) :
           CHILD_IS_NODE(heap[cell].N[x[1]].child[x[2]]) =>
             heap[cell].N[x[1]].child[x[2]] \in NodesInUse(heap, cell)
      /\ InCellSubtree(heap, cell, 0) = NodesInUse(heap, cell)

\* several cells after removals and adds, one of them with a vacant node slot
\* below a slot in use
C32_Witness ==
  /\ ~fault
  /\ n_objects >= 2
  /\ n_remove_ok > 0
  /\ last.op = "add"
  /\ last.ret
  /\ Cardinality(DOMAIN heap) >= 2
  /\ \E cell \in Cells : \E n \in NodesInUse(heap, cell) :
       \E v \in NodeIds \ NodesInUse(heap, cell) : 0 < v /\ v < n

\* ---------------------------------------------------------------------------
\* the cursors the calls of the interface leave on a record: after
\* c3bt_first, c3bt_last and c3bt_locate, and after a c3bt_next or c3bt_prev
\* from one of these
Cursors ==
  LET start == {c3bt_first(heap, root, n_objects), c3bt_last(heap, root, n_objects)}
                 \cup {c3bt_locate(heap, root, n_objects, key_type, key_nbits, x) : x \in indexed}
      stepped == {c3bt_next(heap, n_objects, key_type, c) : c \in {d \in start : d.robj # NULL}}
                   \cup {c3bt_prev(heap, n_objects, key_type, c) : c \in {d \in start : d.robj # NULL}}
  IN  {c \in start \cup stepped : c.robj # NULL}

\* C33: in any reachable state with at least two records, for a cursor on a
\* record x that is not the maximum, c3bt_next followed by c3bt_prev on the
\* same cursor returns x again, and c3bt_prev followed by c3bt_next returns x
\* when x is not the minimum
C33_StepThereAndBack ==
  (~fault /\ n_objects >= 2) =>
    \A c \in Cursors :
      /\ Neighbour(c.robj, 1) # NULL =>
           /\ c3bt_next(heap, n_objects, key_type, c).robj # NULL
           /\ c3bt_prev(heap, n_objects, key_type,
                        c3bt_next(heap, n_objects, key_type, c)).robj = c.robj
      /\ Neighbour(c.robj, 0) # NULL =>
           /\ c3bt_prev(heap, n_objects, key_type, c).robj # NULL
           /\ c3bt_next(heap, n_objects, key_type,
                        c3bt_prev(heap, n_objects, key_type, c)).robj = c.robj

====
